---- MODULE Spec2Model ----
(***************************************************************************)
(* A model of discord-tg-bot.py: the persistent set store                  *)
(* (AtomicFileHandler, DataStorage), the rate-limited Telegram client      *)
(* (TelegramAPI), the router (TelegramNotifier), the long-polling loop     *)
(* (telegram_polling) and the supervisor (main).                           *)
(*                                                                         *)
(* Every coroutine of the program is run by a small interpreter: a task is *)
(* a stack of frames, a frame is a function name, a position (pc) and the  *)
(* locals the function keeps.  asyncio runs one task at a time and         *)
(* switches tasks only at an await that really suspends (a sleep, a        *)
(* network request): `running` names the task that holds the event loop.   *)
(***************************************************************************)
EXTENDS Integers, Sequences, FiniteSets, TLC

VARIABLES
    chat_ids,       \* DataStorage.chat_ids (Destinations), in memory
    subscribers,    \* DataStorage.subscribers, in memory
    disk,           \* content of chat_ids.json / subscribers.json
    temp,           \* content of chat_ids.tmp / subscribers.tmp
    locks,          \* AtomicFileHandler._locks: per file "none" | "free" | task
    committed,      \* history: per file, the snapshots renamed into it
    stack,          \* per task, its stack of frames
    ret,            \* per task, the value its last finished call returned
    exc,            \* per task, the exception that is propagating ("none")
    running,        \* the task that holds the event loop, or "none"
    crashed,        \* the process was killed
    op,             \* per task, the record of the operation a caller started
    budget,         \* operations the environment may still start
    age,            \* time.time() - last_request, in ticks, cut at RATE_TICKS
    gap,            \* history: `age` when the last request was dispatched
    session,        \* TelegramAPI.session: "none" | "open" | "closed"
    cancelReq,      \* per task: cancel() was called and not yet delivered
    batch,          \* history: the cursor a polling batch began with, its ids
    hist            \* history: per file, the set its last good save wrote

storeVars == <<chat_ids, subscribers, disk, temp, locks, committed>>
taskVars == <<stack, ret, exc, running, crashed, op, budget>>
apiVars == <<age, gap, session>>
ctlVars == <<cancelReq, batch, hist>>
vars == <<storeVars, taskVars, apiVars, ctlVars>>

----------------------------------------------------------------------------
(* Bounds and inputs *)

MaxOps == 2

ChatIds == {"chat1", "chat2"}
UserIds == {7, 42}
Tasks == {"t1", "t2", "t3", "t4"}

CHAT_FILE == "chat_ids.json"
SUBS_FILE == "subscribers.json"
Files == {CHAT_FILE, SUBS_FILE}

NoTask == "none"

----------------------------------------------------------------------------
(* File contents and the JSON round trip *)

Range(s) == {s[i] : i \in 1..Len(s)}

\* list(data): the members of a set in some order (the same for a given set).
RECURSIVE ListOf(_)
ListOf(S) ==
    IF S = {} THEN <<>>
    ELSE LET x == CHOOSE y \in S : TRUE IN <<x>> \o ListOf(S \ {x})

Absent == [shape |-> "absent", data |-> <<>>]

\* json.dump({'data': list(data)}, f): the complete text of a snapshot.
Dump(S) == [shape |-> "dict", data |-> ListOf(S)]

\* The text of a file that was opened for writing and not written to its
\* end (the write failed, or the process died): it has no closing bracket,
\* whatever part of the members it holds, and json.load rejects it.
Partial == [shape |-> "partial", data |-> <<>>]

\* Load with the {'data': [...]} form of a snapshot not recognised.
Load_list_only(content) ==
    IF content.shape = "list" THEN Range(content.data) ELSE {}

\* AtomicFileHandler.load on a file that holds `content`.
Load(content) ==
    IF content.shape = "absent" THEN {}
    ELSE IF content.shape = "list" THEN Range(content.data)
    ELSE IF content.shape = "dict" THEN Range(content.data)
    ELSE {}

\* The record of a file's saves: whether one has returned True yet and the
\* set the last such one was handed, and whether the most recent save
\* returned True.
NotSaved == [any |-> FALSE, set |-> {}, ok |-> FALSE]
Saved(S) == [any |-> TRUE, set |-> S, ok |-> TRUE]

\* The set a `data` argument of save refers to: save is handed the live set.
DataOf(ref) == IF ref = "chat_ids" THEN chat_ids ELSE subscribers

----------------------------------------------------------------------------
(* The interpreter: frames, calls and returns *)

Top(t) == stack[t][Len(stack[t])]

\* Task t holds the event loop and is at position pc of function fn.
At(t, fn, pc) ==
    /\ ~crashed
    /\ running = t
    /\ stack[t] # <<>>
    /\ exc[t] = "none"
    /\ Top(t).fn = fn
    /\ Top(t).pc = pc

Pop(stk) == SubSeq(stk, 1, Len(stk) - 1)

SetPc(stk, pc) == [stk EXCEPT ![Len(stk)].pc = pc]

Jump(t, pc) == stack' = [stack EXCEPT ![t] = SetPc(@, pc)]

\* The top frame calls `frame` and continues at retpc when it returns.
Call(t, retpc, frame) ==
    stack' = [stack EXCEPT ![t] = Append(SetPc(@, retpc), frame)]

\* What a coroutine returns is kept in one shape.  None, or the JSON
\* envelope of a status 200 that _make_request returns: its ok field and, for
\* getUpdates, how many updates its result list holds (what each update
\* holds is drawn when the loop gets to it).
Resp(none, ok, n) == [none |-> none, ok |-> ok, result |-> n]

NoneResp == Resp(TRUE, FALSE, 0)

\* A returned bool, and a returned int with the truth value Python gives it.
Bool(b) == Resp(FALSE, b, 0)
Number(n) == Resp(FALSE, n # 0, n)

\* A returned set.
SetVal(S) == [none |-> FALSE, ok |-> S # {}, result |-> 0, set |-> S]

\* The top frame returns v; a task whose last frame returns has finished.
Return(t, v) ==
    /\ stack' = [stack EXCEPT ![t] = Pop(@)]
    /\ ret' = [ret EXCEPT ![t] = IF Len(stack[t]) = 1 THEN Bool(FALSE) ELSE v]
    /\ running' = IF Len(stack[t]) = 1 THEN NoTask ELSE t
    /\ op' = IF Len(stack[t]) = 1
             THEN [op EXCEPT ![t].done = TRUE, ![t].result = v]
             ELSE op

\* What is recorded of an operation: its function and argument, the two sets
\* and the two files when it began, the saves it called, the broadcast calls
\* it made, the texts it handed to send_message, and how it ended.
NoOp ==
    [fn |-> "none", arg |-> 0, chats0 |-> {}, subs0 |-> {},
     disk0 |-> [f \in Files |-> Absent], saves |-> 0, casts |-> <<>>,
     sends |-> <<>>, oks |-> 0, steps |-> <<>>, done |-> FALSE,
     result |-> Bool(FALSE), raised |-> "none", cancelled |-> FALSE]

\* A caller starts `frame` as the operation of the idle task t.
Start(t, frame, arg) ==
    /\ ~crashed
    /\ running = NoTask
    /\ stack[t] = <<>>
    /\ budget > 0
    /\ budget' = budget - 1
    /\ running' = t
    /\ stack' = [stack EXCEPT ![t] = <<frame>>]
    /\ op' = [op EXCEPT ![t] =
                [NoOp EXCEPT !.fn = frame.fn, !.arg = arg,
                             !.chats0 = chat_ids, !.subs0 = subscribers,
                             !.disk0 = disk]]
    /\ UNCHANGED <<ret, exc, crashed, ctlVars>>

----------------------------------------------------------------------------
(* AtomicFileHandler.load *)

LoadFrame(filename) == [fn |-> "load", pc |-> "start", filename |-> filename]

\* if not path.exists(): return default_factory()
load(t) ==
    /\ At(t, "load", "start")
    /\ IF disk[Top(t).filename] = Absent
       THEN Return(t, SetVal({}))
       ELSE /\ Jump(t, "lock")
            /\ UNCHANGED <<ret, running, op>>
    /\ UNCHANGED <<storeVars, exc, crashed, budget, apiVars, ctlVars>>

\* The lock is taken without a check that it is free.
load_lock_unchecked(t) ==
    /\ At(t, "load", "lock")
    /\ Jump(t, "read")
    /\ UNCHANGED <<storeVars, ret, exc, running, crashed, op, budget>>
    /\ UNCHANGED <<apiVars, ctlVars>>

\* lock = await _get_lock(filename); async with lock
load_lock(t) ==
    /\ At(t, "load", "lock")
    /\ locks[Top(t).filename] \in {"none", "free"}
    /\ locks' = [locks EXCEPT ![Top(t).filename] = t]
    /\ Jump(t, "read")
    /\ UNCHANGED <<chat_ids, subscribers, disk, temp, committed>>
    /\ UNCHANGED <<ret, exc, running, crashed, op, budget, apiVars, ctlVars>>

\* json.load(f) and the conversion to a set, or the default on any error;
\* the locked section is left.
load_read(t) ==
    /\ At(t, "load", "read")
    /\ Return(t, SetVal(Load(disk[Top(t).filename])))
    /\ locks' = [locks EXCEPT ![Top(t).filename] = "free"]
    /\ UNCHANGED <<chat_ids, subscribers, disk, temp, committed>>
    /\ UNCHANGED <<exc, crashed, budget, apiVars, ctlVars>>

----------------------------------------------------------------------------
(* AtomicFileHandler.save *)

SaveFrame(filename, ref) ==
    [fn |-> "save", pc |-> "lock", filename |-> filename, data |-> ref]

\* lock = await _get_lock(filename); async with lock: the lock is made on
\* first use and taken.  No await lies inside the locked section, so the
\* lock is free whenever a task gets here.
save_lock(t) ==
    /\ At(t, "save", "lock")
    /\ locks[Top(t).filename] \in {"none", "free"}
    /\ locks' = [locks EXCEPT ![Top(t).filename] = t]
    /\ Jump(t, "open")
    /\ UNCHANGED <<chat_ids, subscribers, disk, temp, committed>>
    /\ UNCHANGED <<ret, exc, running, crashed, op, budget, apiVars, ctlVars>>

\* except: return False, leaving the locked section.
SaveFails(t) ==
    /\ locks' = [locks EXCEPT ![Top(t).filename] = "free"]
    /\ hist' = [hist EXCEPT ![Top(t).filename].ok = FALSE]
    /\ Return(t, Bool(FALSE))

\* save_open with the target opened in place of the temporary file.
save_open_in_place(t) ==
    /\ At(t, "save", "open")
    /\ disk' = [disk EXCEPT ![Top(t).filename] = Partial]
    /\ Jump(t, "dump")
    /\ UNCHANGED <<chat_ids, subscribers, temp, locks, committed>>
    /\ UNCHANGED <<ret, exc, running, crashed, op, budget, apiVars, ctlVars>>

\* open(temp, 'w'): the temporary file is created or truncated.
save_open(t) ==
    /\ At(t, "save", "open")
    /\ \/ /\ temp' = [temp EXCEPT ![Top(t).filename] = Partial]
          /\ Jump(t, "dump")
          /\ UNCHANGED <<locks, ret, running, op, hist>>
       \/ /\ SaveFails(t)
          /\ UNCHANGED temp
    /\ UNCHANGED <<chat_ids, subscribers, disk, committed>>
    /\ UNCHANGED <<exc, crashed, budget, apiVars, cancelReq, batch>>

\* json.dump({'data': list(data)}, f): the whole text, or a part of it when
\* the write fails.
save_dump(t) ==
    /\ At(t, "save", "dump")
    /\ LET f == Top(t).filename
           S == DataOf(Top(t).data)
       IN \/ /\ temp' = [temp EXCEPT ![f] = Dump(S)]
             /\ Jump(t, "replace")
             /\ UNCHANGED <<locks, ret, running, op, hist>>
          \/ /\ temp' = [temp EXCEPT ![f] = Partial]
             /\ SaveFails(t)
    /\ UNCHANGED <<chat_ids, subscribers, disk, committed>>
    /\ UNCHANGED <<exc, crashed, budget, apiVars, cancelReq, batch>>

\* temp.replace(path): the rename puts the temporary file in the target's
\* place; return True.
save_replace(t) ==
    /\ At(t, "save", "replace")
    /\ LET f == Top(t).filename
       IN \/ /\ disk' = [disk EXCEPT ![f] = temp[f]]
             /\ temp' = [temp EXCEPT ![f] = Absent]
             /\ committed' = [committed EXCEPT
                                ![f] = @ \cup {DataOf(Top(t).data)}]
             /\ hist' = [hist EXCEPT ![f] = Saved(DataOf(Top(t).data))]
             /\ locks' = [locks EXCEPT ![f] = "free"]
             /\ Return(t, Bool(TRUE))
          \/ /\ SaveFails(t)
             /\ UNCHANGED <<disk, temp, committed>>
    /\ UNCHANGED <<chat_ids, subscribers>>
    /\ UNCHANGED <<exc, crashed, budget, apiVars, cancelReq, batch>>

----------------------------------------------------------------------------
(* DataStorage *)

AddChatIdFrame(chat_id) ==
    [fn |-> "add_chat_id", pc |-> "start", chat_id |-> chat_id]

\* add_chat_id without the membership test.
add_chat_id_unconditional(t) ==
    /\ At(t, "add_chat_id", "start")
    /\ chat_ids' = chat_ids \cup {Top(t).chat_id}
    /\ Call(t, "saved", SaveFrame(CHAT_FILE, "chat_ids"))
    /\ op' = [op EXCEPT ![t].saves = @ + 1]
    /\ UNCHANGED <<subscribers, disk, temp, locks, committed>>
    /\ UNCHANGED <<ret, running, exc, crashed, budget, apiVars, ctlVars>>

\* if chat_id not in self.chat_ids: add it and return await save_chat_ids();
\* return False.
add_chat_id(t) ==
    /\ At(t, "add_chat_id", "start")
    /\ IF Top(t).chat_id \notin chat_ids
       THEN /\ chat_ids' = chat_ids \cup {Top(t).chat_id}
            /\ Call(t, "saved", SaveFrame(CHAT_FILE, "chat_ids"))
            /\ op' = [op EXCEPT ![t].saves = @ + 1]
            /\ UNCHANGED <<ret, running>>
       ELSE /\ Return(t, Bool(FALSE))
            /\ UNCHANGED chat_ids
    /\ UNCHANGED <<subscribers, disk, temp, locks, committed>>
    /\ UNCHANGED <<exc, crashed, budget, apiVars, ctlVars>>

\* add_chat_id_saved with the identifier taken out again when the save
\* failed.
add_chat_id_saved_rollback(t) ==
    /\ At(t, "add_chat_id", "saved")
    /\ Return(t, ret[t])
    /\ chat_ids' = IF ret[t].ok THEN chat_ids ELSE chat_ids \ {Top(t).chat_id}
    /\ UNCHANGED <<subscribers, disk, temp, locks, committed>>
    /\ UNCHANGED <<exc, crashed, budget, apiVars, ctlVars>>

\* return await self.save_chat_ids(): what save returned.
add_chat_id_saved(t) ==
    /\ At(t, "add_chat_id", "saved")
    /\ Return(t, ret[t])
    /\ UNCHANGED <<storeVars, exc, crashed, budget, apiVars, ctlVars>>

ToggleFrame(user_id, subscribe) ==
    [fn |-> "toggle_subscription", pc |-> "start",
     user_id |-> user_id, subscribe |-> subscribe]

\* The set toggle_subscription leaves in memory.
Toggled(S, user_id, subscribe) ==
    IF subscribe /\ user_id \notin S THEN S \cup {user_id}
    ELSE IF ~subscribe /\ user_id \in S THEN S \ {user_id}
    ELSE S

\* toggle_subscription with the save left out when a member is discarded.
toggle_subscription_add_saved_only(t) ==
    /\ At(t, "toggle_subscription", "start")
    /\ LET new == Toggled(subscribers, Top(t).user_id, Top(t).subscribe)
           changed == new # subscribers
       IN IF changed /\ Top(t).subscribe
          THEN /\ subscribers' = new
               /\ Call(t, "saved", SaveFrame(SUBS_FILE, "subscribers"))
               /\ op' = [op EXCEPT ![t].saves = @ + 1]
               /\ UNCHANGED <<ret, running>>
          ELSE /\ Return(t, Bool(FALSE))
               /\ subscribers' = new
    /\ UNCHANGED <<chat_ids, disk, temp, locks, committed>>
    /\ UNCHANGED <<exc, crashed, budget, apiVars, ctlVars>>

\* changed is set by the add or the discard; if changed: return await
\* save_subscribers(); return False.
toggle_subscription(t) ==
    /\ At(t, "toggle_subscription", "start")
    /\ LET new == Toggled(subscribers, Top(t).user_id, Top(t).subscribe)
           changed == new # subscribers
       IN IF changed
          THEN /\ subscribers' = new
               /\ Call(t, "saved", SaveFrame(SUBS_FILE, "subscribers"))
               /\ op' = [op EXCEPT ![t].saves = @ + 1]
               /\ UNCHANGED <<ret, running>>
          ELSE /\ Return(t, Bool(FALSE))
               /\ UNCHANGED subscribers
    /\ UNCHANGED <<chat_ids, disk, temp, locks, committed>>
    /\ UNCHANGED <<exc, crashed, budget, apiVars, ctlVars>>

toggle_subscription_saved(t) ==
    /\ At(t, "toggle_subscription", "saved")
    /\ Return(t, ret[t])
    /\ UNCHANGED <<storeVars, exc, crashed, budget, apiVars, ctlVars>>

----------------------------------------------------------------------------
(* Texts: MessageManager and MessageFormatter *)

\* A text is the template it came from and what its body holds:
\*   "empty"       the empty string
\*   "plain"       no brace, at most 4096 characters
\*   "named"       a replacement field with a name, as in "{user}"
\*   "escaped"     doubled braces only, as in "{{user}}"
\*   "positional"  a replacement field without a name, as in "{}" or "{0}"
\*   "unbalanced"  a single brace
\*   "long"        no brace, more than 4096 characters
Bodies ==
    {"empty", "plain", "named", "escaped", "positional", "unbalanced", "long"}

Text(tpl, body) == [tpl |-> tpl, body |-> body]

\* MessageManager.get(*path): the catalogue's template at the path.
MessagesGet(tpl) == Text(tpl, "plain")

\* _replace_placeholders(text, {}): text.format() with no arguments; only a
\* KeyError is caught.
ReplacePlaceholders(text) ==
    IF text.body = "positional" THEN [raises |-> "IndexError", text |-> text]
    ELSE IF text.body = "unbalanced"
    THEN [raises |-> "ValueError", text |-> text]
    ELSE IF text.body = "escaped"
    THEN [raises |-> "none", text |-> [text EXCEPT !.body = "named"]]
    ELSE [raises |-> "none", text |-> text]

\* format_for_telegram(text): the replacement, then the cut at 4096.
FormatForTelegram(text) ==
    LET r == ReplacePlaceholders(text)
    IN IF r.raises = "none" /\ r.text.body = "long"
       THEN [r EXCEPT !.text.body = "plain"]
       ELSE r

----------------------------------------------------------------------------
(* TelegramAPI *)

\* 0.3 s, in ticks of 100 ms.
RATE_TICKS == 3

Min(a, b) == IF a < b THEN a ELSE b
Max(a, b) == IF a > b THEN a ELSE b

MakeRequestFrame(method) ==
    [fn |-> "_make_request", pc |-> "start", method |-> method, delay |-> 0]

Sleeping(t) ==
    /\ stack[t] # <<>>
    /\ Top(t).fn = "_make_request"
    /\ Top(t).pc = "sleep"

\* time.time() - self.last_request as a call may find it.  Tick counts the
\* time that passes while a task sleeps; the time that passed while none did
\* is seen here, by the call that reads the clock.
Elapsed ==
    IF \E t \in Tasks : Sleeping(t) THEN {age} ELSE age..RATE_TICKS

\* await asyncio.sleep(max(0, 0.3 - (time.time() - self.last_request))): the
\* delay is computed from last_request as it is now, and the task is
\* suspended (a sleep of 0 yields to the event loop too).
make_request(t) ==
    /\ At(t, "_make_request", "start")
    /\ \E a \in Elapsed :
          /\ age' = a
          /\ stack' = [stack EXCEPT ![t] =
                          [@ EXCEPT ![Len(@)].pc = "sleep",
                                    ![Len(@)].delay = Max(0, RATE_TICKS - a)]]
    /\ running' = NoTask
    /\ UNCHANGED <<storeVars, ret, exc, crashed, op, budget, gap, session>>
    /\ UNCHANGED ctlVars

\* 100 ms pass: every sleep has that much less to wait.
Tick ==
    /\ ~crashed
    /\ running = NoTask
    /\ \E t \in Tasks : Sleeping(t)
    /\ age < RATE_TICKS \/ \E t \in Tasks : Sleeping(t) /\ Top(t).delay > 0
    /\ age' = Min(age + 1, RATE_TICKS)
    /\ stack' = [t \in Tasks |->
                    IF Sleeping(t) /\ Top(t).delay > 0
                    THEN [stack[t] EXCEPT ![Len(stack[t])].delay = @ - 1]
                    ELSE stack[t]]
    /\ UNCHANGED <<storeVars, ret, exc, running, crashed, op, budget>>
    /\ UNCHANGED <<gap, session, ctlVars>>

\* The event loop may resume the suspended task t with the result it waits
\* for: a task that was cancelled is resumed with CancelledError instead.
Resumable(t) ==
    /\ ~crashed
    /\ running = NoTask
    /\ exc[t] = "none"
    /\ ~cancelReq[t]
    /\ stack[t] # <<>>

\* The sleep is over: self.last_request = time.time(), and the request is
\* about to be dispatched.
make_request_wake(t) ==
    /\ Resumable(t)
    /\ Sleeping(t)
    /\ Top(t).delay = 0
    /\ running' = t
    /\ gap' = age
    /\ age' = 0
    /\ Jump(t, "try")
    /\ UNCHANGED <<storeVars, ret, exc, crashed, op, budget, session, ctlVars>>

\* try: the session is opened on first use; session.post(url, json=data)
\* sends the request, or raises on a closed session (except: pass; return
\* None).
make_request_try(t) ==
    /\ At(t, "_make_request", "try")
    /\ IF session = "closed"
       THEN /\ Return(t, NoneResp)
            /\ UNCHANGED session
       ELSE /\ session' = "open"
            /\ Jump(t, "post")
            /\ running' = NoTask
            /\ UNCHANGED <<ret, op>>
    /\ UNCHANGED <<storeVars, exc, crashed, budget, age, gap, ctlVars>>

InFlight(t) ==
    /\ stack[t] # <<>>
    /\ Top(t).fn = "_make_request"
    /\ Top(t).pc = "post"

\* The answers to sendMessage: status 200 with a JSON envelope, ok or not;
\* anything else (another status, a timeout, a transport error) gives None.
SendResponses == {Resp(FALSE, TRUE, 0), Resp(FALSE, FALSE, 0), NoneResp}

\* The request made by send_message is answered.
make_request_response(t) ==
    /\ Resumable(t)
    /\ InFlight(t)
    /\ Top(t).method = "sendMessage"
    /\ \E r \in SendResponses : Return(t, r)
    /\ UNCHANGED <<storeVars, exc, crashed, budget, apiVars, ctlVars>>

SendFrame(chat_id, text) ==
    [fn |-> "send_message", pc |-> "start", chat_id |-> chat_id, text |-> text]

\* A caller's `await self.api.send_message(chat_id, text)`, continuing at
\* retpc; the call is recorded in the operation's record.
CallSendMessage(t, retpc, chat_id, text) ==
    /\ Call(t, retpc, SendFrame(chat_id, text))
    /\ op' = [op EXCEPT ![t].sends =
                Append(@, [chat_id |-> chat_id, tpl |-> text.tpl])]

\* if not text or len(text) > 4096: return False; otherwise the request.
send_message(t) ==
    /\ At(t, "send_message", "start")
    /\ IF Top(t).text.body \in {"empty", "long"}
       THEN /\ Return(t, Bool(FALSE))
       ELSE /\ Call(t, "result", MakeRequestFrame("sendMessage"))
            /\ UNCHANGED <<ret, running, op>>
    /\ UNCHANGED <<storeVars, exc, crashed, budget, apiVars, ctlVars>>

\* return bool(result and result.get('ok'))
send_message_result(t) ==
    /\ At(t, "send_message", "result")
    /\ Return(t, Bool(~ret[t].none /\ ret[t].ok))
    /\ UNCHANGED <<storeVars, exc, crashed, budget, apiVars, ctlVars>>

MaxBatch == 2

GetUpdatesFrame(offset) ==
    [fn |-> "get_updates", pc |-> "start", offset |-> offset]

\* result = await self._make_request("getUpdates", data)
get_updates(t) ==
    /\ At(t, "get_updates", "start")
    /\ Call(t, "result", MakeRequestFrame("getUpdates"))
    /\ UNCHANGED <<storeVars, ret, exc, running, crashed, op, budget>>
    /\ UNCHANGED <<apiVars, ctlVars>>

\* return result
get_updates_result(t) ==
    /\ At(t, "get_updates", "result")
    /\ Return(t, ret[t])
    /\ UNCHANGED <<storeVars, exc, crashed, budget, apiVars, ctlVars>>

\* An ok envelope whose result is not a list (null, a number): iterating it
\* raises TypeError.
Malformed == Resp(FALSE, TRUE, -1)

\* The answers to getUpdates: None, an envelope that is not ok, an ok
\* envelope with a list of at most MaxBatch updates, or a malformed one.
UpdateResponses ==
    {NoneResp, Resp(FALSE, FALSE, 0), Malformed}
        \cup {Resp(FALSE, TRUE, n) : n \in 0..MaxBatch}

\* The request made by get_updates is answered.
get_updates_response(t) ==
    /\ Resumable(t)
    /\ InFlight(t)
    /\ Top(t).method = "getUpdates"
    /\ \E r \in UpdateResponses : Return(t, r)
    /\ UNCHANGED <<storeVars, exc, crashed, budget, apiVars, ctlVars>>

\* The same while nobody writes to the bot: no answer carries an update.
get_updates_quiet(t) ==
    /\ Resumable(t)
    /\ InFlight(t)
    /\ Top(t).method = "getUpdates"
    /\ \E r \in {q \in UpdateResponses : q.result = 0} : Return(t, r)
    /\ UNCHANGED <<storeVars, exc, crashed, budget, apiVars, ctlVars>>

----------------------------------------------------------------------------
(* Exceptions and cancellation *)

\* CancelledError is a BaseException: `except Exception` lets it through, a
\* bare `except:` catches it.
IsException(e) == e # "CancelledError"

\* Where the frame continues when exception e reaches it at its position, or
\* "none" when the frame has no handler for it there.
HandlerPc(frame, e) ==
    IF frame.fn = "_make_request"
    THEN \* try: ... except: pass (the sleep is before the try)
         IF frame.pc \in {"try", "post"} THEN "except" ELSE "none"
    ELSE IF frame.fn = "process_update"
    THEN \* except Exception as e: return False
         IF IsException(e) THEN "except" ELSE "none"
    ELSE IF frame.fn = "telegram_polling"
    THEN \* except CancelledError: break / except Exception: sleep(1); the
         \* sleep of the handler is outside the try, and so is a task that
         \* has not run yet.
         IF frame.pc \in {"backoff", "new"} THEN "none"
         ELSE IF e = "CancelledError" THEN "break"
         ELSE "except"
    ELSE IF frame.fn = "keep_alive_task"
    THEN \* except CancelledError: break / except Exception: sleep(60)
         IF frame.pc \in {"backoff", "new"} THEN "none"
         ELSE IF e = "CancelledError" THEN "break"
         ELSE "except"
    ELSE IF frame.fn = "on_voice_state_update"
    THEN \* except Exception as e: logger.error(...)
         IF IsException(e) THEN "except" ELSE "none"
    ELSE IF frame.fn = "main"
    THEN \* the cancel loop, the three steps of the finally block: except:
         \* pass.  The try block: except KeyboardInterrupt / except
         \* Exception, and the finally block for what neither catches.
         IF frame.pc = "wait_for" THEN "cancel"
         ELSE IF frame.pc = "stopped" THEN "close"
         ELSE IF frame.pc = "close" THEN "bot_close"
         ELSE IF frame.pc = "bot_close" THEN "end"
         ELSE IF frame.pc \in {"start", "started", "wait", "cancel"}
         THEN IF IsException(e) \/ e = "KeyboardInterrupt" THEN "except"
              ELSE "finally_raise"
         ELSE "none"
    ELSE "none"

\* The exception of task t reaches its top frame: the frame's handler takes
\* it, or the frame is left and the exception goes on to the caller; a task
\* whose last frame is left ends with the exception.
Unwind(t) ==
    /\ ~crashed
    /\ running = t
    /\ exc[t] # "none"
    /\ stack[t] # <<>>
    /\ LET h == HandlerPc(Top(t), exc[t])
           last == Len(stack[t]) = 1
       IN IF h # "none"
          THEN /\ Jump(t, h)
               /\ exc' = [exc EXCEPT ![t] = "none"]
               /\ UNCHANGED <<running, op>>
          ELSE /\ stack' = [stack EXCEPT ![t] = Pop(@)]
               /\ exc' = IF last THEN [exc EXCEPT ![t] = "none"] ELSE exc
               /\ running' = IF last THEN NoTask ELSE running
               /\ op' = IF last
                        THEN [op EXCEPT ![t].done = TRUE, ![t].raised = exc[t]]
                        ELSE op
    /\ UNCHANGED <<storeVars, ret, crashed, budget, apiVars, ctlVars>>

\* task.cancel() took effect: the suspended task is resumed with
\* CancelledError raised at the await it is suspended in.  (A task suspended
\* in wait_for hands the cancellation on: main_wait_for_cancelled.)
Deliver(t) ==
    /\ ~crashed
    /\ running = NoTask
    /\ cancelReq[t]
    /\ stack[t] # <<>>
    /\ Top(t).pc # "wait_for"
    /\ cancelReq' = [cancelReq EXCEPT ![t] = FALSE]
    /\ exc' = [exc EXCEPT ![t] = "CancelledError"]
    /\ running' = t
    /\ op' = [op EXCEPT ![t].cancelled = TRUE]
    /\ UNCHANGED <<storeVars, stack, ret, crashed, budget, apiVars, batch, hist>>

\* except: pass; return None
make_request_except(t) ==
    /\ At(t, "_make_request", "except")
    /\ Return(t, NoneResp)
    /\ UNCHANGED <<storeVars, exc, crashed, budget, apiVars, ctlVars>>

----------------------------------------------------------------------------
(* TelegramNotifier.handle_start *)

HandleStartFrame(chat_id) ==
    [fn |-> "handle_start", pc |-> "start", chat_id |-> chat_id]

\* added = await self.storage.add_chat_id(chat_id)
handle_start(t) ==
    /\ At(t, "handle_start", "start")
    /\ Call(t, "added", AddChatIdFrame(Top(t).chat_id))
    /\ UNCHANGED <<storeVars, ret, exc, running, crashed, op, budget, apiVars, ctlVars>>

\* The template handle_start picks from what add_chat_id returned.
StartTemplate(added) ==
    IF added THEN "start.welcome" ELSE "start.already_registered"

\* msg = self.messages.get(..., "welcome" if added else "already_registered");
\* return await self.api.send_message(chat_id, format_for_telegram(msg))
handle_start_added(t) ==
    /\ At(t, "handle_start", "added")
    /\ LET r == FormatForTelegram(MessagesGet(StartTemplate(ret[t].ok)))
       IN IF r.raises = "none"
          THEN /\ CallSendMessage(t, "sent", Top(t).chat_id, r.text)
               /\ UNCHANGED exc
          ELSE /\ exc' = [exc EXCEPT ![t] = r.raises]
               /\ UNCHANGED <<stack, op>>
    /\ UNCHANGED <<storeVars, ret, running, crashed, budget, apiVars, ctlVars>>

handle_start_sent(t) ==
    /\ At(t, "handle_start", "sent")
    /\ Return(t, ret[t])
    /\ UNCHANGED <<storeVars, exc, crashed, budget, apiVars, ctlVars>>

----------------------------------------------------------------------------
(* TelegramNotifier.handle_status and process_update *)

HandleStatusFrame(chat_id) ==
    [fn |-> "handle_status", pc |-> "start", chat_id |-> chat_id]

\* await self.api.send_message(chat_id, self.messages.get(..., "loading"))
handle_status(t) ==
    /\ At(t, "handle_status", "start")
    /\ CallSendMessage(t, "loaded", Top(t).chat_id,
                       MessagesGet("status.loading"))
    /\ UNCHANGED <<storeVars, ret, exc, running, crashed, budget>>
    /\ UNCHANGED <<apiVars, ctlVars>>

\* What the status message may hold: the title template filled in, with the
\* display names of the subscribers when there are any; a display name is
\* what its owner chose, braces included.
StatusBodies == IF subscribers = {} THEN {"plain"} ELSE {"plain", "positional"}

\* status_msg = ...format(...); return await self.api.send_message(chat_id,
\* MessageFormatter.format_for_telegram(status_msg))
handle_status_loaded(t) ==
    /\ At(t, "handle_status", "loaded")
    /\ \E b \in StatusBodies :
          LET r == FormatForTelegram(Text("status.title", b))
          IN IF r.raises = "none"
             THEN /\ CallSendMessage(t, "sent", Top(t).chat_id, r.text)
                  /\ UNCHANGED exc
             ELSE /\ exc' = [exc EXCEPT ![t] = r.raises]
                  /\ UNCHANGED <<stack, op>>
    /\ UNCHANGED <<storeVars, ret, running, crashed, budget, apiVars, ctlVars>>

handle_status_sent(t) ==
    /\ At(t, "handle_status", "sent")
    /\ Return(t, ret[t])
    /\ UNCHANGED <<storeVars, exc, crashed, budget, apiVars, ctlVars>>

\* The update ids, the texts and the chats an update may carry; an update
\* may come without an update_id, and its text may be no string (a JSON null
\* or number, which has no strip()).
UpdateIds == {3, 5}
NonString == "<null>"
UpdateTexts ==
    {"/start", " /start ", "/help", "/status", "hello", "", NonString}
UpdateChats == {"chat1"}
Updates ==
    [has_id : BOOLEAN, update_id : UpdateIds, text : UpdateTexts,
     chat_id : UpdateChats]

\* text.strip()
Strip(text) == IF text = " /start " THEN "/start" ELSE text

ProcessUpdateFrame(update) ==
    [fn |-> "process_update", pc |-> "start", update |-> update]

\* process_update with the text compared as it came, not stripped.
process_update_unstripped(t) ==
    /\ At(t, "process_update", "start")
    /\ LET text == Top(t).update.text
           chat_id == Top(t).update.chat_id
           reply(tpl) == FormatForTelegram(MessagesGet(tpl)).text
       IN IF text = NonString
          THEN /\ exc' = [exc EXCEPT ![t] = "AttributeError"]
               /\ UNCHANGED <<stack, op>>
          ELSE /\ IF text = "/start"
                  THEN /\ Call(t, "ret", HandleStartFrame(chat_id))
                       /\ UNCHANGED op
                  ELSE IF text = "/help"
                  THEN CallSendMessage(t, "ret", chat_id, reply("help.title"))
                  ELSE IF text = "/status"
                  THEN /\ Call(t, "ret", HandleStatusFrame(chat_id))
                       /\ UNCHANGED op
                  ELSE CallSendMessage(t, "ret", chat_id,
                                       reply("errors.invalid_command"))
               /\ UNCHANGED exc
    /\ UNCHANGED <<storeVars, ret, running, crashed, budget>>
    /\ UNCHANGED <<apiVars, ctlVars>>

\* text and chat_id are taken from the update (a text that is no string
\* raises AttributeError at strip()); the text picks the handler.
process_update(t) ==
    /\ At(t, "process_update", "start")
    /\ LET text == Strip(Top(t).update.text)
           chat_id == Top(t).update.chat_id
           reply(tpl) == FormatForTelegram(MessagesGet(tpl)).text
       IN IF text = NonString
          THEN /\ exc' = [exc EXCEPT ![t] = "AttributeError"]
               /\ UNCHANGED <<stack, op>>
          ELSE /\ IF text = "/start"
                  THEN /\ Call(t, "ret", HandleStartFrame(chat_id))
                       /\ UNCHANGED op
                  ELSE IF text = "/help"
                  THEN CallSendMessage(t, "ret", chat_id, reply("help.title"))
                  ELSE IF text = "/status"
                  THEN /\ Call(t, "ret", HandleStatusFrame(chat_id))
                       /\ UNCHANGED op
                  ELSE CallSendMessage(t, "ret", chat_id,
                                       reply("errors.invalid_command"))
               /\ UNCHANGED exc
    /\ UNCHANGED <<storeVars, ret, running, crashed, budget>>
    /\ UNCHANGED <<apiVars, ctlVars>>

\* return await <the handler or the send>
process_update_ret(t) ==
    /\ At(t, "process_update", "ret")
    /\ Return(t, ret[t])
    /\ UNCHANGED <<storeVars, exc, crashed, budget, apiVars, ctlVars>>

\* except Exception as e: logger.error(...); return False
process_update_except(t) ==
    /\ At(t, "process_update", "except")
    /\ Return(t, Bool(FALSE))
    /\ UNCHANGED <<storeVars, exc, crashed, budget, apiVars, ctlVars>>

----------------------------------------------------------------------------
(* TelegramNotifier.broadcast *)

\* `seen` holds the members the set iterator has yielded, `size0` the size
\* of the set when the iteration began.
BroadcastFrame(text) ==
    [fn |-> "broadcast", pc |-> "start", text |-> text, sent |-> 0,
     seen |-> {}, size0 |-> 0]

\* if not self.storage.chat_ids or not text: return 0
\* text = MessageFormatter.format_for_telegram(text); sent = 0
broadcast(t) ==
    /\ At(t, "broadcast", "start")
    /\ LET r == FormatForTelegram(Top(t).text)
       IN IF chat_ids = {} \/ Top(t).text.body = "empty"
          THEN /\ Return(t, Number(0))
               /\ UNCHANGED exc
          ELSE IF r.raises # "none"
          THEN /\ exc' = [exc EXCEPT ![t] = r.raises]
               /\ UNCHANGED <<stack, ret, running, op>>
          ELSE /\ stack' = [stack EXCEPT ![t] =
                              [@ EXCEPT ![Len(@)].pc = "for",
                                        ![Len(@)].text = r.text,
                                        ![Len(@)].size0 =
                                            Cardinality(chat_ids)]]
               /\ UNCHANGED <<ret, exc, running, op>>
    /\ UNCHANGED <<storeVars, crashed, budget, apiVars, ctlVars>>

\* for i, chat_id in enumerate(self.storage.chat_ids): the iterator of a set
\* raises RuntimeError when the set has changed size, otherwise it yields a
\* member not yet yielded, in an order of its own, or ends the loop:
\* return sent
broadcast_for(t) ==
    /\ At(t, "broadcast", "for")
    /\ IF Cardinality(chat_ids) # Top(t).size0
       THEN /\ exc' = [exc EXCEPT ![t] = "RuntimeError"]
            /\ UNCHANGED <<stack, ret, running, op>>
       ELSE IF chat_ids \subseteq Top(t).seen
       THEN /\ Return(t, Number(Top(t).sent))
            /\ UNCHANGED exc
       ELSE \E c \in chat_ids \ Top(t).seen :
              /\ stack' = [stack EXCEPT ![t] =
                     Append([@ EXCEPT ![Len(@)].pc = "sent",
                                      ![Len(@)].seen = @ \cup {c}],
                            SendFrame(c, Top(t).text))]
              /\ op' = [op EXCEPT ![t].sends =
                          Append(@, [chat_id |-> c, tpl |-> Top(t).text.tpl])]
              /\ UNCHANGED <<ret, exc, running>>
    /\ UNCHANGED <<storeVars, crashed, budget, apiVars, ctlVars>>

\* broadcast_sent with a destination dropped when the send to it failed.
broadcast_sent_prunes(t) ==
    /\ At(t, "broadcast", "sent")
    /\ stack' = [stack EXCEPT ![t] =
                   [@ EXCEPT ![Len(@)].pc = "for",
                             ![Len(@)].sent = IF ret[t].ok THEN @ + 1 ELSE @]]
    /\ op' = [op EXCEPT ![t].oks = IF ret[t].ok THEN @ + 1 ELSE @]
    /\ chat_ids' = IF ret[t].ok THEN chat_ids
                   ELSE chat_ids \ {op[t].sends[Len(op[t].sends)].chat_id}
    /\ UNCHANGED <<subscribers, disk, temp, locks, committed>>
    /\ UNCHANGED <<ret, exc, running, crashed, budget>>
    /\ UNCHANGED <<apiVars, ctlVars>>

\* if await self.api.send_message(chat_id, text): sent += 1
broadcast_sent(t) ==
    /\ At(t, "broadcast", "sent")
    /\ stack' = [stack EXCEPT ![t] =
                   [@ EXCEPT ![Len(@)].pc = "for",
                             ![Len(@)].sent = IF ret[t].ok THEN @ + 1 ELSE @]]
    /\ op' = [op EXCEPT ![t].oks = IF ret[t].ok THEN @ + 1 ELSE @]
    /\ UNCHANGED <<storeVars, ret, exc, running, crashed, budget>>
    /\ UNCHANGED <<apiVars, ctlVars>>

----------------------------------------------------------------------------
(* DiscordBot.on_voice_state_update *)

\* A voice channel is known by its name; None is no channel.
None == "None"
Channels == {"Lounge", "Study"}

\* What a display name holds, as a text body holds it.
Names == {"plain", "positional"}

\* What the catalogue holds for a presence template: a format string with
\* the fields {user_name}, {channel_name}, {user_id}, {time}, or nothing
\* (messages.get gives "" for a path it does not have).
VoiceBodies == {"named", "empty"}

\* template.format(user_name=..., ...): the fields are replaced by the
\* values, and what the display name holds is in the result as it is.
Format(template, name) ==
    IF template.body = "named" THEN Text(template.tpl, name) ELSE template

VoiceFrame(member, name, before, after) ==
    [fn |-> "on_voice_state_update", pc |-> "start", member |-> member,
     name |-> name, before |-> before, after |-> after]

\* The branch of the if / elif chain an event takes: the template's key and
\* the channel whose name is rendered, or None for both.
VoiceBranch(before, after) ==
    IF after # None /\ before = None
    THEN [key |-> "voice_events.joined", channel |-> after]
    ELSE IF before # None /\ after = None
    THEN [key |-> "voice_events.left", channel |-> before]
    ELSE IF before # None /\ after # None /\ before # after
    THEN [key |-> "voice_events.moved", channel |-> after]
    ELSE [key |-> None, channel |-> None]

\* on_voice_state_update with the members that did not subscribe let
\* through.
on_voice_state_update_ungated(t) ==
    /\ At(t, "on_voice_state_update", "start")
    /\ LET f == Top(t)
           b == VoiceBranch(f.before, f.after)
       IN IF f.before = f.after \/ b.key = None
          THEN /\ Return(t, NoneResp)
          ELSE \E body \in VoiceBodies :
                 /\ Call(t, "sent", BroadcastFrame(
                             Format(Text(b.key, body), f.name)))
                 /\ op' = [op EXCEPT ![t].casts =
                             Append(@, [tpl |-> b.key, channel |-> b.channel])]
                 /\ UNCHANGED <<ret, running>>
    /\ UNCHANGED <<storeVars, exc, crashed, budget, apiVars, ctlVars>>

\* if member.id not in self.storage.subscribers or before.channel ==
\* after.channel: return; then the branch's template is rendered and
\* await self.telegram.broadcast(msg)
on_voice_state_update(t) ==
    /\ At(t, "on_voice_state_update", "start")
    /\ LET f == Top(t)
           b == VoiceBranch(f.before, f.after)
       IN IF f.member \notin subscribers \/ f.before = f.after \/ b.key = None
          THEN /\ Return(t, NoneResp)
          ELSE \E body \in VoiceBodies :
                 /\ Call(t, "sent", BroadcastFrame(
                             Format(Text(b.key, body), f.name)))
                 /\ op' = [op EXCEPT ![t].casts =
                             Append(@, [tpl |-> b.key, channel |-> b.channel])]
                 /\ UNCHANGED <<ret, running>>
    /\ UNCHANGED <<storeVars, exc, crashed, budget, apiVars, ctlVars>>

\* broadcast returned: the handler ends.
on_voice_state_update_sent(t) ==
    /\ At(t, "on_voice_state_update", "sent")
    /\ Return(t, NoneResp)
    /\ UNCHANGED <<storeVars, exc, crashed, budget, apiVars, ctlVars>>

\* except Exception as e: logger.error(...)
on_voice_state_update_except(t) ==
    /\ At(t, "on_voice_state_update", "except")
    /\ Return(t, NoneResp)
    /\ UNCHANGED <<storeVars, exc, crashed, budget, apiVars, ctlVars>>

----------------------------------------------------------------------------
(* SubscribeView._update_subscription *)

UpdateSubscriptionFrame(user, name, subscribe) ==
    [fn |-> "_update_subscription", pc |-> "start", user |-> user,
     name |-> name, subscribe |-> subscribe]

\* The key of the templates of a subscription request.
ActionName(subscribe) ==
    IF subscribe THEN "subscription.subscribed"
    ELSE "subscription.unsubscribed"

\* await interaction.response.defer(ephemeral=True): the task is suspended
\* until Discord has answered.
update_subscription(t) ==
    /\ At(t, "_update_subscription", "start")
    /\ Jump(t, "deferred")
    /\ running' = NoTask
    /\ UNCHANGED <<storeVars, ret, exc, crashed, op, budget>>
    /\ UNCHANGED <<apiVars, ctlVars>>

\* update_subscription_deferred with the state it tests read before the
\* defer.
update_subscription_deferred_stale(t) ==
    /\ Resumable(t)
    /\ Top(t).fn = "_update_subscription"
    /\ Top(t).pc = "deferred"
    /\ IF (Top(t).user \in op[t].subs0) = Top(t).subscribe
       THEN /\ Jump(t, "already")
            /\ UNCHANGED running
       ELSE /\ running' = t
            /\ Call(t, "toggled", ToggleFrame(Top(t).user, Top(t).subscribe))
    /\ UNCHANGED <<storeVars, ret, exc, crashed, op, budget>>
    /\ UNCHANGED <<apiVars, ctlVars>>

\* was_subscribed = user.id in self.bot.storage.subscribers
\* if was_subscribed == subscribe: await interaction.followup.send(...) of
\* the "already" text (the task is suspended in it); otherwise
\* success = await self.bot.storage.toggle_subscription(user.id, subscribe)
update_subscription_deferred(t) ==
    /\ Resumable(t)
    /\ Top(t).fn = "_update_subscription"
    /\ Top(t).pc = "deferred"
    /\ IF (Top(t).user \in subscribers) = Top(t).subscribe
       THEN /\ Jump(t, "already")
            /\ UNCHANGED running
       ELSE /\ running' = t
            /\ Call(t, "toggled", ToggleFrame(Top(t).user, Top(t).subscribe))
    /\ UNCHANGED <<storeVars, ret, exc, crashed, op, budget>>
    /\ UNCHANGED <<apiVars, ctlVars>>

\* The "already" text was sent: return
update_subscription_already(t) ==
    /\ Resumable(t)
    /\ Top(t).fn = "_update_subscription"
    /\ Top(t).pc = "already"
    /\ Return(t, NoneResp)
    /\ UNCHANGED <<storeVars, exc, crashed, budget, apiVars, ctlVars>>

\* await interaction.followup.send(...) of the confirmation: the task is
\* suspended in it.
update_subscription_toggled(t) ==
    /\ At(t, "_update_subscription", "toggled")
    /\ Jump(t, "replied")
    /\ running' = NoTask
    /\ UNCHANGED <<storeVars, ret, exc, crashed, op, budget>>
    /\ UNCHANGED <<apiVars, ctlVars>>

\* The confirmation was sent: the subscription text is rendered and
\* await self.bot.telegram.broadcast(text)
update_subscription_replied(t) ==
    /\ Resumable(t)
    /\ Top(t).fn = "_update_subscription"
    /\ Top(t).pc = "replied"
    /\ running' = t
    /\ \E body \in VoiceBodies :
          LET key == ActionName(Top(t).subscribe)
          IN /\ Call(t, "sent", BroadcastFrame(
                        Format(Text(key, body), Top(t).name)))
             /\ op' = [op EXCEPT ![t].casts =
                         Append(@, [tpl |-> key, channel |-> None])]
    /\ UNCHANGED <<storeVars, ret, exc, crashed, budget, apiVars, ctlVars>>

\* broadcast returned: the request is done.
update_subscription_sent(t) ==
    /\ At(t, "_update_subscription", "sent")
    /\ Return(t, NoneResp)
    /\ UNCHANGED <<storeVars, exc, crashed, budget, apiVars, ctlVars>>

----------------------------------------------------------------------------
(* telegram_polling *)

\* offset = 0; `left` is how many updates of the list in hand are still to
\* be handled.
PollingFrame ==
    [fn |-> "telegram_polling", pc |-> "loop", offset |-> 0, left |-> 0]

\* updates = await notifier.api.get_updates(offset)
telegram_polling(t) ==
    /\ At(t, "telegram_polling", "loop")
    /\ Call(t, "got", GetUpdatesFrame(Top(t).offset))
    /\ UNCHANGED <<storeVars, ret, exc, running, crashed, op, budget>>
    /\ UNCHANGED <<apiVars, ctlVars>>

\* await asyncio.sleep(0.1): suspended at the end of the iteration.
PollingYields(t) ==
    /\ Jump(t, "yield")
    /\ running' = NoTask

\* if updates and updates.get('ok'): for update in updates.get('result', [])
telegram_polling_got(t) ==
    /\ At(t, "telegram_polling", "got")
    /\ IF ret[t] = Malformed
       THEN /\ exc' = [exc EXCEPT ![t] = "TypeError"]
            /\ UNCHANGED <<stack, running, batch>>
       ELSE IF ~ret[t].none /\ ret[t].ok
       THEN /\ stack' = [stack EXCEPT ![t] =
                           [@ EXCEPT ![Len(@)].pc = "for",
                                     ![Len(@)].left = ret[t].result]]
            /\ batch' = [start |-> Top(t).offset, ids |-> <<>>]
            /\ UNCHANGED <<running, exc>>
       ELSE /\ PollingYields(t)
            /\ UNCHANGED <<batch, exc>>
    /\ ret' = [ret EXCEPT ![t] = Bool(FALSE)]
    /\ UNCHANGED <<storeVars, crashed, op, budget, apiVars, cancelReq>>
    /\ UNCHANGED hist

\* The cursor set to one past the update in hand, whatever it was before.
NextOffset_last(offset, update_id) == update_id + 1

\* offset = max(offset, update['update_id'] + 1)
NextOffset(offset, update_id) == Max(offset, update_id + 1)

\* The record of what the handler of one update did starts afresh with
\* each update.
ResetLog(o) ==
    [o EXCEPT !.chats0 = chat_ids, !.subs0 = subscribers, !.disk0 = disk,
              !.saves = 0, !.sends = <<>>, !.oks = 0]

\* telegram_polling_for with process_update called before the cursor is
\* moved.
telegram_polling_for_late(t) ==
    /\ At(t, "telegram_polling", "for")
    /\ IF Top(t).left = 0
       THEN /\ PollingYields(t)
            /\ op' = [op EXCEPT ![t] = ResetLog(@)]
            /\ UNCHANGED <<exc, batch>>
       ELSE \E u \in Updates :
              IF ~u.has_id
              THEN /\ exc' = [exc EXCEPT ![t] = "KeyError"]
                   /\ UNCHANGED <<stack, running, op, batch>>
              ELSE /\ stack' = [stack EXCEPT ![t] =
                          Append([@ EXCEPT ![Len(@)].left = @ - 1],
                                 ProcessUpdateFrame(u))]
                   /\ batch' = [batch EXCEPT
                                  !.ids = Append(@, u.update_id)]
                   /\ op' = [op EXCEPT ![t] = ResetLog(@)]
                   /\ UNCHANGED <<exc, running>>
    /\ ret' = [ret EXCEPT ![t] = Bool(FALSE)]
    /\ UNCHANGED <<storeVars, crashed, budget, apiVars, cancelReq, hist>>

\* The next update of the list: the cursor moves, then
\* await notifier.process_update(update); after the last one the sleep.
telegram_polling_for(t) ==
    /\ At(t, "telegram_polling", "for")
    /\ IF Top(t).left = 0
       THEN /\ PollingYields(t)
            /\ op' = [op EXCEPT ![t] = ResetLog(@)]
            /\ UNCHANGED <<exc, batch>>
       ELSE \E u \in Updates :
              IF ~u.has_id
              THEN /\ exc' = [exc EXCEPT ![t] = "KeyError"]
                   /\ UNCHANGED <<stack, running, op, batch>>
              ELSE /\ stack' = [stack EXCEPT ![t] =
                          Append([@ EXCEPT
                                    ![Len(@)].offset =
                                        NextOffset(@, u.update_id),
                                    ![Len(@)].left = @ - 1],
                                 ProcessUpdateFrame(u))]
                   /\ batch' = [batch EXCEPT
                                  !.ids = Append(@, u.update_id)]
                   /\ op' = [op EXCEPT ![t] = ResetLog(@)]
                   /\ UNCHANGED <<exc, running>>
    /\ ret' = [ret EXCEPT ![t] = Bool(FALSE)]
    /\ UNCHANGED <<storeVars, crashed, budget, apiVars, cancelReq, hist>>

\* The sleep of 0.1 s is over: the next iteration.
telegram_polling_yield(t) ==
    /\ Resumable(t)
    /\ Top(t).fn = "telegram_polling"
    /\ Top(t).pc = "yield"
    /\ running' = t
    /\ Jump(t, "loop")
    /\ UNCHANGED <<storeVars, ret, exc, crashed, op, budget>>
    /\ UNCHANGED <<apiVars, ctlVars>>

\* telegram_polling_except with the loop left after the error is logged.
telegram_polling_except_ends(t) ==
    /\ At(t, "telegram_polling", "except")
    /\ Return(t, NoneResp)
    /\ UNCHANGED <<storeVars, exc, crashed, budget, apiVars, ctlVars>>

\* except Exception as e: logger.error(...); await asyncio.sleep(1)
telegram_polling_except(t) ==
    /\ At(t, "telegram_polling", "except")
    /\ Jump(t, "backoff")
    /\ running' = NoTask
    /\ UNCHANGED <<storeVars, ret, exc, crashed, op, budget>>
    /\ UNCHANGED <<apiVars, ctlVars>>

\* The sleep of 1 s is over: the next iteration.
telegram_polling_backoff(t) ==
    /\ Resumable(t)
    /\ Top(t).fn = "telegram_polling"
    /\ Top(t).pc = "backoff"
    /\ running' = t
    /\ Jump(t, "loop")
    /\ UNCHANGED <<storeVars, ret, exc, crashed, op, budget>>
    /\ UNCHANGED <<apiVars, ctlVars>>

\* except asyncio.CancelledError: break
telegram_polling_break(t) ==
    /\ At(t, "telegram_polling", "break")
    /\ Return(t, NoneResp)
    /\ UNCHANGED <<storeVars, exc, crashed, budget, apiVars, ctlVars>>

\* A task made by asyncio.create_task runs for the first time.
task_start(t) ==
    /\ Resumable(t)
    /\ Top(t).pc = "new"
    /\ running' = t
    /\ Jump(t, "loop")
    /\ UNCHANGED <<storeVars, ret, exc, crashed, op, budget>>
    /\ UNCHANGED <<apiVars, ctlVars>>

----------------------------------------------------------------------------
(* keep_alive_task, and bot.start as main sees it *)

KeepAliveFrame == [fn |-> "keep_alive_task", pc |-> "new"]

\* logger.info(...); await asyncio.sleep(60)
keep_alive_task(t) ==
    /\ At(t, "keep_alive_task", "loop")
    /\ Jump(t, "sleep")
    /\ running' = NoTask
    /\ UNCHANGED <<storeVars, ret, exc, crashed, op, budget>>
    /\ UNCHANGED <<apiVars, ctlVars>>

\* The 60 s are over: the next iteration.
keep_alive_task_wake(t) ==
    /\ Resumable(t)
    /\ Top(t).fn = "keep_alive_task"
    /\ Top(t).pc = "sleep"
    /\ running' = t
    /\ Jump(t, "loop")
    /\ UNCHANGED <<storeVars, ret, exc, crashed, op, budget>>
    /\ UNCHANGED <<apiVars, ctlVars>>

\* except asyncio.CancelledError: break
keep_alive_task_break(t) ==
    /\ At(t, "keep_alive_task", "break")
    /\ Return(t, NoneResp)
    /\ UNCHANGED <<storeVars, exc, crashed, budget, apiVars, ctlVars>>

BotFrame == [fn |-> "bot_start", pc |-> "new"]

\* bot.start(token): logs in and stays connected.
bot_start(t) ==
    /\ At(t, "bot_start", "loop")
    /\ Jump(t, "connected")
    /\ running' = NoTask
    /\ UNCHANGED <<storeVars, ret, exc, crashed, op, budget>>
    /\ UNCHANGED <<apiVars, ctlVars>>

\* bot.start comes to its end: it returns, or it raises.
bot_start_ends(t) ==
    /\ Resumable(t)
    /\ Top(t).fn = "bot_start"
    /\ Top(t).pc = "connected"
    /\ \/ /\ Return(t, NoneResp)
          /\ UNCHANGED exc
       \/ /\ running' = t
          /\ exc' = [exc EXCEPT ![t] = "ConnectionClosed"]
          /\ UNCHANGED <<stack, ret, op>>
    /\ UNCHANGED <<storeVars, crashed, budget, apiVars, ctlVars>>

----------------------------------------------------------------------------
(* main, from its try block on *)

\* The tasks main makes.
BotTask == "t2"
PollTask == "t1"
KeepAliveTask == "t3"
Units == {BotTask, PollTask, KeepAliveTask}

\* `pending` and `cur`: the set the cancel loop goes through and the task it
\* is at; `timer`: the timeout of wait_for is armed; `timedout`: it has
\* fired; `reraise`: the finally block was entered with an exception that
\* goes on after it.
MainFrame ==
    [fn |-> "main", pc |-> "start", pending |-> {}, cur |-> NoTask,
     timer |-> FALSE, timedout |-> FALSE, reraise |-> FALSE]

\* What the operator's catalogue may hold as the "bot started" template.
StartupBodies == {"plain", "positional"}

\* await notifier.broadcast(format_for_telegram(startup_msg, start_time=..))
main(t) ==
    /\ At(t, "main", "start")
    /\ \E b \in StartupBodies :
          LET r == FormatForTelegram(Text("system.bot_started", b))
          IN IF r.raises = "none"
             THEN /\ Call(t, "started", BroadcastFrame(r.text))
                  /\ UNCHANGED exc
             ELSE /\ exc' = [exc EXCEPT ![t] = r.raises]
                  /\ UNCHANGED stack
    /\ UNCHANGED <<storeVars, ret, running, crashed, op, budget>>
    /\ UNCHANGED <<apiVars, ctlVars>>

Created(o, frame) == [NoOp EXCEPT !.fn = frame.fn]

\* The three asyncio.create_task calls;
\* done, pending = await asyncio.wait([...], return_when=FIRST_COMPLETED)
main_started(t) ==
    /\ At(t, "main", "started")
    /\ stack' = [u \in Tasks |->
                   IF u = t
                   THEN [stack[t] EXCEPT ![Len(stack[t])].pc = "wait"]
                   ELSE IF u = BotTask THEN <<BotFrame>>
                   ELSE IF u = PollTask
                   THEN <<[PollingFrame EXCEPT !.pc = "new"]>>
                   ELSE IF u = KeepAliveTask THEN <<KeepAliveFrame>>
                   ELSE stack[u]]
    /\ op' = [u \in Tasks |->
                IF u = BotTask THEN Created(op[u], BotFrame)
                ELSE IF u = PollTask THEN Created(op[u], PollingFrame)
                ELSE IF u = KeepAliveTask THEN Created(op[u], KeepAliveFrame)
                ELSE op[u]]
    /\ running' = NoTask
    /\ ret' = [ret EXCEPT ![t] = Bool(FALSE)]
    /\ UNCHANGED <<storeVars, exc, crashed, budget, apiVars, ctlVars>>

\* asyncio.wait returns once a task is done: pending holds those that are
\* not.  The three tasks, made before main suspended, have run by then.
main_wait(t) ==
    /\ Resumable(t)
    /\ Top(t).fn = "main"
    /\ Top(t).pc = "wait"
    /\ \E u \in Units : stack[u] = <<>>
    /\ \A u \in Units : IF stack[u] = <<>> THEN TRUE ELSE Top(u).pc # "new"
    /\ running' = t
    /\ stack' = [stack EXCEPT ![t] =
                   [@ EXCEPT ![Len(@)].pc = "cancel",
                             ![Len(@)].pending =
                                 {u \in Units : stack[u] # <<>>}]]
    /\ UNCHANGED <<storeVars, ret, exc, crashed, op, budget>>
    /\ UNCHANGED <<apiVars, ctlVars>>

\* for task in pending: task.cancel(); await asyncio.wait_for(task, 5.0)
\* A task that is done already is not waited for.
main_cancel(t) ==
    /\ At(t, "main", "cancel")
    /\ IF Top(t).pending = {}
       THEN /\ Jump(t, "finally")
            /\ UNCHANGED <<running, cancelReq>>
       ELSE \E u \in Top(t).pending :
              LET alive == stack[u] # <<>>
              IN /\ stack' = [stack EXCEPT ![t] =
                        [@ EXCEPT ![Len(@)].pending = @ \ {u},
                                  ![Len(@)].cur = IF alive THEN u ELSE NoTask,
                                  ![Len(@)].timer = alive,
                                  ![Len(@)].timedout = FALSE,
                                  ![Len(@)].pc =
                                      IF alive THEN "wait_for" ELSE "cancel"]]
                 /\ cancelReq' = [cancelReq EXCEPT ![u] = alive]
                 /\ running' = IF alive THEN NoTask ELSE t
    /\ UNCHANGED <<storeVars, ret, exc, crashed, op, budget, apiVars, batch, hist>>

\* The task waited for is done: whatever wait_for raises, a cancellation
\* of main that came in the meantime included, except: pass.
main_wait_for(t) ==
    /\ ~crashed
    /\ running = NoTask
    /\ stack[t] # <<>>
    /\ Top(t).fn = "main"
    /\ Top(t).pc = "wait_for"
    /\ stack[Top(t).cur] = <<>>
    /\ running' = t
    /\ stack' = [stack EXCEPT ![t] =
                   [@ EXCEPT ![Len(@)].pc = "cancel",
                             ![Len(@)].cur = NoTask,
                             ![Len(@)].timer = FALSE,
                             ![Len(@)].timedout = FALSE]]
    /\ cancelReq' = [cancelReq EXCEPT ![t] = FALSE]
    /\ UNCHANGED <<storeVars, ret, exc, crashed, op, budget>>
    /\ UNCHANGED <<apiVars, batch, hist>>

\* wait_for cancels the task it waits for and goes on waiting until that
\* task is done, then raises.
WaitForCancels(t, timedout) ==
    /\ stack' = [stack EXCEPT ![t] =
                   [@ EXCEPT ![Len(@)].timer = FALSE,
                             ![Len(@)].timedout = timedout]]
    /\ cancelReq' = [cancelReq EXCEPT ![t] = FALSE, ![Top(t).cur] = TRUE]

\* The 5 s of wait_for are over and the task, cancelled once, still runs.
main_wait_for_timeout(t) ==
    /\ Resumable(t)
    /\ Top(t).fn = "main"
    /\ Top(t).pc = "wait_for"
    /\ Top(t).timer
    /\ stack[Top(t).cur] # <<>>
    /\ ~cancelReq[Top(t).cur]
    /\ WaitForCancels(t, TRUE)
    /\ UNCHANGED <<storeVars, ret, exc, running, crashed, op, budget>>
    /\ UNCHANGED <<apiVars, batch, hist>>

\* main is cancelled while it is suspended in wait_for.
main_wait_for_cancelled(t) ==
    /\ ~crashed
    /\ running = NoTask
    /\ cancelReq[t]
    /\ stack[t] # <<>>
    /\ Top(t).fn = "main"
    /\ Top(t).pc = "wait_for"
    /\ stack[Top(t).cur] # <<>>
    /\ WaitForCancels(t, Top(t).timedout)
    /\ UNCHANGED <<storeVars, ret, exc, running, crashed, op, budget>>
    /\ UNCHANGED <<apiVars, batch, hist>>

\* except KeyboardInterrupt / except Exception as e: a line in the log.
main_except(t) ==
    /\ At(t, "main", "except")
    /\ Jump(t, "finally")
    /\ UNCHANGED <<storeVars, ret, exc, running, crashed, op, budget>>
    /\ UNCHANGED <<apiVars, ctlVars>>

\* finally: try: await notifier_obj.broadcast(format_for_telegram(
\* shutdown_msg))
main_finally(t) ==
    /\ \/ At(t, "main", "finally")
       \/ At(t, "main", "finally_raise")
    /\ stack' = [stack EXCEPT ![t] =
                   Append([@ EXCEPT ![Len(@)].pc = "stopped",
                                    ![Len(@)].reraise =
                                        Top(t).pc = "finally_raise"],
                          BroadcastFrame(FormatForTelegram(
                              MessagesGet("system.bot_stopped")).text))]
    /\ op' = [op EXCEPT ![t].steps = Append(@, "broadcast")]
    /\ UNCHANGED <<storeVars, ret, exc, running, crashed, budget>>
    /\ UNCHANGED <<apiVars, ctlVars>>

\* The broadcast has returned.
main_stopped(t) ==
    /\ At(t, "main", "stopped")
    /\ Jump(t, "close")
    /\ UNCHANGED <<storeVars, ret, exc, running, crashed, op, budget>>
    /\ UNCHANGED <<apiVars, ctlVars>>

\* if api.session and not api.session.closed: await api.session.close()
main_close(t) ==
    /\ At(t, "main", "close")
    /\ session' = IF session = "open" THEN "closed" ELSE session
    /\ op' = [op EXCEPT ![t].steps =
                IF session = "open" THEN Append(@, "close") ELSE @]
    /\ Jump(t, "bot_close")
    /\ UNCHANGED <<storeVars, ret, exc, running, crashed, budget>>
    /\ UNCHANGED <<age, gap, ctlVars>>

\* if not bot.is_closed(): await bot.close(): bot.start, if it still runs,
\* returns.
main_bot_close(t) ==
    /\ At(t, "main", "bot_close")
    /\ stack' = [stack EXCEPT
                   ![t] = [@ EXCEPT ![Len(@)].pc = "end"],
                   ![BotTask] = <<>>]
    /\ op' = [op EXCEPT ![BotTask].done = op[BotTask].fn = "bot_start"]
    /\ cancelReq' = [cancelReq EXCEPT ![BotTask] = FALSE]
    /\ UNCHANGED <<storeVars, ret, exc, running, crashed, budget>>
    /\ UNCHANGED <<apiVars, batch, hist>>

\* The end of main: what the finally block was entered with goes on.
main_end(t) ==
    /\ At(t, "main", "end")
    /\ IF Top(t).reraise
       THEN /\ exc' = [exc EXCEPT ![t] = "CancelledError"]
            /\ UNCHANGED <<stack, ret, running, op>>
       ELSE /\ Return(t, NoneResp)
            /\ UNCHANGED exc
    /\ UNCHANGED <<storeVars, crashed, budget, apiVars, ctlVars>>

----------------------------------------------------------------------------
(* The process: a kill at any moment, and the next start *)

EmptyTasks ==
    /\ stack' = [t \in Tasks |-> <<>>]
    /\ ret' = [t \in Tasks |-> Bool(FALSE)]
    /\ exc' = [t \in Tasks |-> "none"]
    /\ running' = NoTask
    /\ op' = [t \in Tasks |-> NoOp]

\* The process dies: what it held in memory is gone, the files stay.
Crash ==
    /\ ~crashed
    /\ crashed' = TRUE
    /\ EmptyTasks
    /\ chat_ids' = {}
    /\ subscribers' = {}
    /\ locks' = [f \in Files |-> "none"]
    /\ age' = RATE_TICKS
    /\ gap' = RATE_TICKS
    /\ session' = "none"
    /\ cancelReq' = [t \in Tasks |-> FALSE]
    /\ UNCHANGED <<disk, temp, committed, budget, batch, hist>>

\* DataStorage.load_all, run by main when the process starts again.
load_all ==
    /\ crashed
    /\ crashed' = FALSE
    /\ chat_ids' = Load(disk[CHAT_FILE])
    /\ subscribers' = Load(disk[SUBS_FILE])
    /\ UNCHANGED <<disk, temp, locks, committed>>
    /\ UNCHANGED <<stack, ret, exc, running, op, budget, apiVars, ctlVars>>

----------------------------------------------------------------------------
(* The state after construction *)

\* What a collection's file may hold when the process starts: nothing, or a
\* snapshot an earlier run saved.
StartContents(Ids) == {Absent} \cup {Dump(S) : S \in SUBSET Ids}

InitStore(Chats, Subs) ==
    /\ \E c \in Chats, s \in Subs :
          disk = [f \in Files |-> IF f = CHAT_FILE THEN c ELSE s]
    /\ temp = [f \in Files |-> Absent]
    /\ locks = [f \in Files |-> "none"]
    /\ committed = [f \in Files |->
                      IF disk[f] = Absent THEN {} ELSE {Load(disk[f])}]
    /\ chat_ids = Load(disk[CHAT_FILE])
    /\ subscribers = Load(disk[SUBS_FILE])

InitTasks ==
    /\ stack = [t \in Tasks |-> <<>>]
    /\ ret = [t \in Tasks |-> Bool(FALSE)]
    /\ exc = [t \in Tasks |-> "none"]
    /\ running = NoTask
    /\ crashed = FALSE
    /\ op = [t \in Tasks |-> NoOp]
    /\ budget = MaxOps

NoBatch == [start |-> 0, ids |-> <<>>]

InitApi ==
    /\ age = RATE_TICKS
    /\ gap = RATE_TICKS
    /\ session = "none"
    /\ cancelReq = [t \in Tasks |-> FALSE]
    /\ batch = NoBatch
    /\ hist = [f \in Files |-> NotSaved]

Init ==
    /\ InitStore(StartContents(ChatIds), StartContents(UserIds))
    /\ InitTasks
    /\ InitApi

----------------------------------------------------------------------------
(* The store, driven by callers of DataStorage and of handle_start *)

CallAddChatId(t, x) ==
    /\ Start(t, AddChatIdFrame(x), x)
    /\ UNCHANGED <<storeVars, apiVars, ctlVars>>

CallToggle(t, u, w) ==
    /\ Start(t, ToggleFrame(u, w), <<u, w>>)
    /\ UNCHANGED <<storeVars, apiVars, ctlVars>>

CallHandleStart(t, d) ==
    /\ Start(t, HandleStartFrame(d), d)
    /\ UNCHANGED <<storeVars, apiVars, ctlVars>>

StoreTask == "t1"

InitChats ==
    /\ InitStore(StartContents(ChatIds), {Absent})
    /\ InitTasks
    /\ InitApi

NextStore ==
    \/ \E x \in ChatIds : CallAddChatId(StoreTask, x)
    \/ \E d \in ChatIds : CallHandleStart(StoreTask, d)
    \/ add_chat_id(StoreTask)
    \/ add_chat_id_saved(StoreTask)
    \/ handle_start(StoreTask)
    \/ handle_start_added(StoreTask)
    \/ handle_start_sent(StoreTask)
    \/ save_lock(StoreTask)
    \/ save_open(StoreTask)
    \/ save_dump(StoreTask)
    \/ save_replace(StoreTask)
    \/ send_message(StoreTask)
    \/ send_message_result(StoreTask)
    \/ make_request(StoreTask)
    \/ make_request_wake(StoreTask)
    \/ make_request_try(StoreTask)
    \/ make_request_response(StoreTask)
    \/ Tick
    \/ Crash
    \/ load_all

SpecStore == InitChats /\ [][NextStore]_vars

----------------------------------------------------------------------------
(* The two files, read and written by the callers of the store *)

\* await AtomicFileHandler.load(filename)
CallLoad(t, f) ==
    /\ Start(t, LoadFrame(f), f)
    /\ UNCHANGED <<storeVars, apiVars>>

\* The tasks that use the store.
StoreUsers == {"t1", "t2"}

NextFile ==
    \/ \E t \in StoreUsers, x \in ChatIds : CallAddChatId(t, x)
    \/ \E t \in StoreUsers, u \in UserIds, w \in BOOLEAN : CallToggle(t, u, w)
    \/ \E t \in StoreUsers, f \in Files : CallLoad(t, f)
    \/ \E t \in StoreUsers : add_chat_id(t)
    \/ \E t \in StoreUsers : add_chat_id_saved(t)
    \/ \E t \in StoreUsers : toggle_subscription(t)
    \/ \E t \in StoreUsers : toggle_subscription_saved(t)
    \/ \E t \in StoreUsers : save_lock(t)
    \/ \E t \in StoreUsers : save_open(t)
    \/ \E t \in StoreUsers : save_dump(t)
    \/ \E t \in StoreUsers : save_replace(t)
    \/ \E t \in StoreUsers : load(t)
    \/ \E t \in StoreUsers : load_lock(t)
    \/ \E t \in StoreUsers : load_read(t)

SpecFile == Init /\ [][NextFile]_vars

----------------------------------------------------------------------------
(* Broadcasts, one at a time, with no other task at work *)

BroadcastTask == "t1"

\* await self.telegram.broadcast(msg)
CallBroadcast(t, text) ==
    /\ Start(t, BroadcastFrame(text), text.body)
    /\ UNCHANGED <<storeVars, apiVars>>

InitBroadcast ==
    /\ InitStore({Dump(S) : S \in SUBSET ChatIds}, {Absent})
    /\ InitTasks
    /\ InitApi

NextBroadcast ==
    \/ \E b \in Bodies : CallBroadcast(BroadcastTask, Text("event", b))
    \/ broadcast(BroadcastTask)
    \/ broadcast_for(BroadcastTask)
    \/ broadcast_sent(BroadcastTask)
    \/ Unwind(BroadcastTask)
    \/ send_message(BroadcastTask)
    \/ send_message_result(BroadcastTask)
    \/ make_request(BroadcastTask)
    \/ make_request_wake(BroadcastTask)
    \/ make_request_try(BroadcastTask)
    \/ make_request_response(BroadcastTask)
    \/ Tick

SpecBroadcast == InitBroadcast /\ [][NextBroadcast]_vars

----------------------------------------------------------------------------
(* The polling loop, created as a task and cancelled by its owner *)


\* asyncio.create_task(telegram_polling(notifier)), once in a process.
CreatePolling(t) ==
    /\ op[t].fn = "none"
    /\ Start(t, PollingFrame, 0)
    /\ UNCHANGED <<storeVars, apiVars>>

\* task.cancel()
Cancel(t) ==
    /\ ~crashed
    /\ running = NoTask
    /\ stack[t] # <<>>
    /\ ~cancelReq[t]
    /\ budget > 0
    /\ budget' = budget - 1
    /\ cancelReq' = [cancelReq EXCEPT ![t] = TRUE]
    /\ UNCHANGED <<storeVars, stack, ret, exc, running, crashed, op>>
    /\ UNCHANGED <<apiVars, batch, hist>>

InitPoll ==
    /\ InitStore({Absent}, StartContents({42}))
    /\ InitTasks
    /\ InitApi

NextPoll ==
    \/ CreatePolling(PollTask)
    \/ Cancel(PollTask)
    \/ Deliver(PollTask)
    \/ Unwind(PollTask)
    \/ telegram_polling(PollTask)
    \/ telegram_polling_got(PollTask)
    \/ telegram_polling_for(PollTask)
    \/ telegram_polling_yield(PollTask)
    \/ telegram_polling_except(PollTask)
    \/ telegram_polling_backoff(PollTask)
    \/ telegram_polling_break(PollTask)
    \/ process_update(PollTask)
    \/ process_update_ret(PollTask)
    \/ process_update_except(PollTask)
    \/ handle_start(PollTask)
    \/ handle_start_added(PollTask)
    \/ handle_start_sent(PollTask)
    \/ handle_status(PollTask)
    \/ handle_status_loaded(PollTask)
    \/ handle_status_sent(PollTask)
    \/ add_chat_id(PollTask)
    \/ add_chat_id_saved(PollTask)
    \/ save_lock(PollTask)
    \/ save_open(PollTask)
    \/ save_dump(PollTask)
    \/ save_replace(PollTask)
    \/ send_message(PollTask)
    \/ send_message_result(PollTask)
    \/ get_updates(PollTask)
    \/ get_updates_result(PollTask)
    \/ make_request(PollTask)
    \/ make_request_wake(PollTask)
    \/ make_request_try(PollTask)
    \/ make_request_except(PollTask)
    \/ make_request_response(PollTask)
    \/ get_updates_response(PollTask)
    \/ Tick

SpecPoll == InitPoll /\ [][NextPoll]_vars

----------------------------------------------------------------------------
(* main, its three tasks, and an interrupt *)

MainTask == "t4"

\* asyncio.run(main())
RunMain(t) ==
    /\ op[t].fn = "none"
    /\ Start(t, MainFrame, 0)
    /\ UNCHANGED <<storeVars, apiVars>>

InitMain ==
    /\ InitStore({Dump(S) : S \in {{}, {"chat1"}}}, {Absent})
    /\ InitTasks
    /\ InitApi

\* The steps of task t, whatever it runs.
StepsOf(t) ==
    \/ task_start(t)
    \/ Deliver(t)
    \/ Unwind(t)
    \/ telegram_polling(t)
    \/ telegram_polling_got(t)
    \/ telegram_polling_for(t)
    \/ telegram_polling_yield(t)
    \/ telegram_polling_break(t)
    \/ get_updates(t)
    \/ get_updates_result(t)
    \/ get_updates_quiet(t)
    \/ keep_alive_task(t)
    \/ keep_alive_task_wake(t)
    \/ keep_alive_task_break(t)
    \/ bot_start(t)
    \/ bot_start_ends(t)
    \/ broadcast(t)
    \/ broadcast_for(t)
    \/ broadcast_sent(t)
    \/ send_message(t)
    \/ send_message_result(t)
    \/ make_request(t)
    \/ make_request_wake(t)
    \/ make_request_try(t)
    \/ make_request_except(t)
    \/ make_request_response(t)
    \/ main(t)
    \/ main_started(t)
    \/ main_wait(t)
    \/ main_cancel(t)
    \/ main_wait_for(t)
    \/ main_wait_for_timeout(t)
    \/ main_wait_for_cancelled(t)
    \/ main_except(t)
    \/ main_finally(t)
    \/ main_stopped(t)
    \/ main_close(t)
    \/ main_bot_close(t)
    \/ main_end(t)

NextMain ==
    \/ RunMain(MainTask)
    \/ Cancel(MainTask)
    \/ \E t \in Tasks : StepsOf(t)
    \/ Tick

SpecMain == InitMain /\ [][NextMain]_vars

\* The event loop runs every task that is ready again and again, its timers
\* fire and every request is answered or times out.
\* Every step of a task changes its stack, the task that runs or a pending
\* cancellation; every tick changes the clock or a sleeper's stack.
FairMain ==
    /\ SpecMain
    /\ \A t \in Tasks : SF_<<stack, running, cancelReq>>(StepsOf(t))
    /\ SF_<<stack, age>>(Tick)

----------------------------------------------------------------------------
(* The rate limiter, driven by two tasks that call the client *)

CallSend(t, c, body) ==
    /\ Start(t, SendFrame(c, Text("message", body)), c)
    /\ UNCHANGED <<storeVars, apiVars>>

CallGetUpdates(t) ==
    /\ Start(t, GetUpdatesFrame(0), 0)
    /\ UNCHANGED <<storeVars, apiVars>>

InitRate ==
    /\ InitStore({Absent}, {Absent})
    /\ InitTasks
    /\ InitApi

\* The tasks that call the client.
Callers == {"t1", "t2"}

NextRate ==
    \/ \E t \in Callers, c \in ChatIds, b \in {"plain", "long"} :
          CallSend(t, c, b)
    \/ \E t \in Callers : CallGetUpdates(t)
    \/ \E t \in Callers : send_message(t)
    \/ \E t \in Callers : send_message_result(t)
    \/ \E t \in Callers : get_updates(t)
    \/ \E t \in Callers : get_updates_result(t)
    \/ \E t \in Callers : make_request(t)
    \/ \E t \in Callers : make_request_wake(t)
    \/ \E t \in Callers : make_request_try(t)
    \/ \E t \in Callers : make_request_response(t)
    \/ \E t \in Callers : get_updates_response(t)
    \/ Tick

SpecRate == InitRate /\ [][NextRate]_vars

----------------------------------------------------------------------------
(* The subscribers, driven by callers of toggle_subscription *)

InitSubs ==
    /\ InitStore({Absent}, StartContents(UserIds))
    /\ InitTasks
    /\ InitApi

NextSubs ==
    \/ \E u \in UserIds, w \in BOOLEAN : CallToggle(StoreTask, u, w)
    \/ toggle_subscription(StoreTask)
    \/ toggle_subscription_saved(StoreTask)
    \/ save_lock(StoreTask)
    \/ save_open(StoreTask)
    \/ save_dump(StoreTask)
    \/ save_replace(StoreTask)

SpecSubs == InitSubs /\ [][NextSubs]_vars

----------------------------------------------------------------------------
(* Presence events, handled by the Discord task while subscriptions change *)

\* The gateway dispatches on_voice_state_update(member, before, after).
CallVoice(t, m, name, before, after) ==
    /\ Start(t, VoiceFrame(m, name, before, after), <<m, before, after>>)
    /\ UNCHANGED <<storeVars, apiVars>>

InitVoice ==
    /\ InitStore({Dump(S) : S \in SUBSET ChatIds},
                 {Dump(S) : S \in SUBSET UserIds})
    /\ InitTasks
    /\ InitApi

NextVoice ==
    \/ \E m \in UserIds, name \in Names, before, after \in Channels \cup {None} :
          CallVoice(BotTask, m, name, before, after)
    \/ \E u \in UserIds, w \in BOOLEAN : CallToggle(StoreTask, u, w)
    \/ toggle_subscription(StoreTask)
    \/ toggle_subscription_saved(StoreTask)
    \/ save_lock(StoreTask)
    \/ save_open(StoreTask)
    \/ save_dump(StoreTask)
    \/ save_replace(StoreTask)
    \/ on_voice_state_update(BotTask)
    \/ on_voice_state_update_sent(BotTask)
    \/ on_voice_state_update_except(BotTask)
    \/ broadcast(BotTask)
    \/ broadcast_for(BotTask)
    \/ broadcast_sent(BotTask)
    \/ Unwind(BotTask)
    \/ send_message(BotTask)
    \/ send_message_result(BotTask)
    \/ make_request(BotTask)
    \/ make_request_wake(BotTask)
    \/ make_request_try(BotTask)
    \/ make_request_response(BotTask)
    \/ Tick

SpecVoice == InitVoice /\ [][NextVoice]_vars

----------------------------------------------------------------------------
(* The relay: commands, presence events, subscription requests and
   broadcasts of three tasks, interleaved at their suspension points *)

\* The task of the polling loop handles an update.
CallProcessUpdate(t, u) ==
    /\ Start(t, ProcessUpdateFrame(u), u.chat_id)
    /\ UNCHANGED <<storeVars, apiVars>>

\* A press of the subscribe or the unsubscribe button is dispatched.
CallUpdateSubscription(t, user, name, subscribe) ==
    /\ Start(t, UpdateSubscriptionFrame(user, name, subscribe),
             <<user, subscribe>>)
    /\ UNCHANGED <<storeVars, apiVars>>

\* The tasks discord.py runs event handlers and interactions in.
DiscordTasks == {"t2", "t3"}

\* The updates of the relay: "/start", another text or no text that is a
\* string, from either chat.
RelayUpdates ==
    [has_id : {TRUE}, update_id : {3}, text : {"/start", "hello", NonString},
     chat_id : ChatIds]

\* One destination or none and one subscriber or none to begin with.
InitRelay ==
    /\ InitStore({Dump({}), Dump({"chat1"})}, {Dump({}), Dump({42})})
    /\ InitTasks
    /\ InitApi

\* The steps of task t below the handlers: broadcast, send_message, the
\* store and the request.
Below(t) ==
    \/ broadcast(t)
    \/ broadcast_for(t)
    \/ broadcast_sent(t)
    \/ send_message(t)
    \/ send_message_result(t)
    \/ make_request(t)
    \/ make_request_wake(t)
    \/ make_request_try(t)
    \/ make_request_response(t)
    \/ Unwind(t)

NextRelay ==
    \/ \E u \in RelayUpdates : CallProcessUpdate(PollTask, u)
    \/ process_update(PollTask)
    \/ process_update_ret(PollTask)
    \/ process_update_except(PollTask)
    \/ handle_start(PollTask)
    \/ handle_start_added(PollTask)
    \/ handle_start_sent(PollTask)
    \/ add_chat_id(PollTask)
    \/ add_chat_id_saved(PollTask)
    \/ CallBroadcast(BotTask, Text("event", "plain"))
    \/ \E before, after \in {None, "Lounge"} :
          CallVoice(BotTask, 42, "plain", before, after)
    \/ \E w \in BOOLEAN : CallUpdateSubscription(BotTask, 42, "plain", w)
    \/ on_voice_state_update(BotTask)
    \/ on_voice_state_update_sent(BotTask)
    \/ on_voice_state_update_except(BotTask)
    \/ update_subscription(BotTask)
    \/ update_subscription_deferred(BotTask)
    \/ update_subscription_already(BotTask)
    \/ update_subscription_toggled(BotTask)
    \/ update_subscription_replied(BotTask)
    \/ update_subscription_sent(BotTask)
    \/ toggle_subscription(BotTask)
    \/ toggle_subscription_saved(BotTask)
    \/ \E t \in {PollTask, BotTask} :
          \/ save_lock(t)
          \/ save_open(t)
          \/ save_dump(t)
          \/ save_replace(t)
          \/ Below(t)
    \/ Tick

SpecRelay == InitRelay /\ [][NextRelay]_vars

----------------------------------------------------------------------------
(* Subscription requests of one member, handled by two tasks at a time *)

\* discord.py handles each interaction in a task made for it: the two
\* tasks handle one request each.
DispatchInteraction(t, user, name, subscribe) ==
    /\ op[t].fn = "none"
    /\ CallUpdateSubscription(t, user, name, subscribe)

NextSubscribe ==
    \/ \E t \in DiscordTasks, name \in Names, w \in BOOLEAN :
          DispatchInteraction(t, 42, name, w)
    \/ \E t \in DiscordTasks :
          \/ update_subscription(t)
          \/ update_subscription_deferred(t)
          \/ update_subscription_already(t)
          \/ update_subscription_toggled(t)
          \/ update_subscription_replied(t)
          \/ update_subscription_sent(t)
          \/ toggle_subscription(t)
          \/ toggle_subscription_saved(t)
          \/ save_lock(t)
          \/ save_open(t)
          \/ save_dump(t)
          \/ save_replace(t)
          \/ Below(t)
    \/ Tick

SpecSubscribe == InitRelay /\ [][NextSubscribe]_vars

----------------------------------------------------------------------------
(* Properties of the store *)

\* C2 (part): every target file is absent or holds, whole, a snapshot that
\* was committed to it.
DiskIsSnapshot ==
    \A f \in Files :
        \/ disk[f] = Absent
        \/ \E S \in committed[f] : disk[f] = Dump(S)

\* C2 (part): a step that changes a target file is the rename of a save of
\* that file, and puts there the whole text that save wrote.
OnlyRenameChangesDisk ==
    \A f \in Files :
        disk'[f] # disk[f] =>
            \E t \in Tasks :
                /\ At(t, "save", "replace")
                /\ Top(t).filename = f
                /\ temp[f] = Dump(DataOf(Top(t).data))
                /\ disk'[f] = temp[f]

\* C2: at every point of AtomicFileHandler.save, a crash between the
\* temporary write and the rename and a failed temporary write included, the
\* target file is absent or holds a complete snapshot committed earlier, and
\* only the rename changes what the target holds.
C2_SaveKeepsCommittedSnapshot ==
    []DiskIsSnapshot /\ [][OnlyRenameChangesDisk]_vars

\* C2 witness: the process died after a save wrote its temporary file and
\* before the rename; the target still holds the previous, different
\* snapshot.
C2_CrashBeforeRename ==
    /\ crashed
    /\ temp[CHAT_FILE].shape = "dict"
    /\ disk[CHAT_FILE].shape = "dict"
    /\ temp[CHAT_FILE] # disk[CHAT_FILE]

\* C8: add_chat_id(x) called for an x that is already a destination (the
\* second of two calls) leaves Destinations as it was, calls no save and
\* returns False; called for a new x it adds x and calls save once.
C8_AddChatIdIdempotent ==
    \A t \in Tasks :
        op[t].fn = "add_chat_id" =>
            IF op[t].arg \in op[t].chats0
            THEN /\ chat_ids = op[t].chats0
                 /\ op[t].saves = 0
                 /\ op[t].done => op[t].result = Bool(FALSE)
            ELSE op[t].done =>
                    /\ chat_ids = op[t].chats0 \cup {op[t].arg}
                    /\ op[t].saves = 1

\* C8 witness: the second call for a chat the first call of this run added
\* (no file ever held it) has returned.
C8_SecondCallReturned ==
    \E t \in Tasks :
        /\ op[t].fn = "add_chat_id"
        /\ op[t].done
        /\ op[t].arg \in op[t].chats0
        /\ committed[CHAT_FILE] = {}
        /\ budget = MaxOps - 2

\* C9, as claimed: the reply of handle_start(d) is "welcome" exactly when the
\* call added d to Destinations and "already registered" exactly when d was
\* a member, whatever the persistence write did.
C9_ReplyFollowsMembership ==
    \A t \in Tasks :
        (op[t].fn = "handle_start" /\ op[t].sends # <<>>) =>
            op[t].sends[1].tpl =
                IF op[t].arg \notin op[t].chats0
                THEN "start.welcome"
                ELSE "start.already_registered"

\* C10, as claimed: toggle_subscription returns true exactly when it changed
\* the membership of the identity in Subscribers.
C10_ReturnsWhetherChanged ==
    \A t \in Tasks :
        (op[t].fn = "toggle_subscription" /\ op[t].done) =>
            (op[t].result = Bool(subscribers # op[t].subs0))

----------------------------------------------------------------------------
(* Properties of the rate limiter *)

\* C1, as claimed: whenever a request is dispatched, at least 300 ms have
\* passed since the dispatch before it, whichever tasks made the two calls.
C1_DispatchesAreSpaced == gap >= RATE_TICKS

\* The cursor of the polling task t: the offset of its telegram_polling
\* frame, the bottom frame of the task.
Cursor(t) == stack[t][1].offset

Polling(t) == stack[t] # <<>> /\ stack[t][1].fn = "telegram_polling"

RECURSIVE MaxOf(_)
MaxOf(ids) ==
    IF Len(ids) = 1 THEN Head(ids) ELSE Max(Head(ids), MaxOf(Tail(ids)))

CursorIsMax ==
    \A t \in Tasks :
        Polling(t) =>
            Cursor(t) = IF batch.ids = <<>> THEN batch.start
                        ELSE Max(batch.start, MaxOf(batch.ids) + 1)

CursorNeverDecreases ==
    \A t \in Tasks :
        (Polling(t) /\ stack'[t] # <<>>) => Cursor(t)' >= Cursor(t)

\* C4: the polling cursor never decreases while telegram_polling runs, and
\* once the updates u1..un of a response have been taken up from cursor c
\* the cursor is max(c, max(ui) + 1), in whatever order the ids came.
C4_CursorIsMaxAndMonotonic == []CursorIsMax /\ [][CursorNeverDecreases]_vars

\* A response whose second id is below its first has been handled to its
\* end, and the cursor stands one past the highest id.
C4_OutOfOrderBatchHandled ==
    /\ Polling(PollTask)
    /\ Top(PollTask).fn = "telegram_polling"
    /\ Top(PollTask).pc = "yield"
    /\ batch = [start |-> 0, ids |-> <<5, 3>>]
    /\ Cursor(PollTask) = 6

\* C3: a cancellation delivered to telegram_polling ends it, at whichever
\* await it was suspended: from then on the task is never found suspended
\* again, and it has ended without an exception.
C3_CancelledPollingEnds ==
    \A t \in Tasks :
        (op[t].fn = "telegram_polling" /\ op[t].cancelled /\ running # t)
            => (op[t].done /\ op[t].raised = "none")
\* The chats of the sends an operation made, in the order made.
RECURSIVE SentTo(_)
SentTo(sends) ==
    IF sends = <<>> THEN <<>>
    ELSE <<Head(sends).chat_id>> \o SentTo(Tail(sends))

\* Sequence q holds every member of S once and nothing else.
EachOnce(q, S) == Len(q) = Cardinality(S) /\ Range(q) = S

\* C7: a broadcast that has ended, with destinations and text non-empty,
\* has called send_message once for each destination and returned the
\* number of sends that succeeded; with either of them empty it has made no
\* call and returned 0.
C7_BroadcastSendsToEachOnce ==
    \A t \in Tasks :
        (op[t].fn = "broadcast" /\ op[t].done) =>
            IF op[t].chats0 = {} \/ op[t].arg = "empty"
            THEN /\ op[t].raised = "none"
                 /\ op[t].sends = <<>>
                 /\ op[t].result = Number(0)
            ELSE /\ op[t].raised = "none"
                 /\ EachOnce(SentTo(op[t].sends), op[t].chats0)
                 /\ op[t].result = Number(op[t].oks)
\* main is suspended in the wait_for of its cancel loop.
InWaitFor ==
    /\ stack[MainTask] # <<>>
    /\ Top(MainTask).fn = "main"
    /\ Top(MainTask).pc = "wait_for"

\* C5: main waits at most the grace period for a unit it has cancelled:
\* once the 5 s of wait_for are over, main is found waiting for that unit
\* only while the unit is being ended (its cancellation is on the way, or
\* it is running), never while the unit is suspended again.
C5_GraceBoundsEachWait ==
    (InWaitFor /\ Top(MainTask).timedout) =>
        LET u == Top(MainTask).cur
        IN cancelReq[u] \/ running = u \/ stack[u] = <<>>

ShutdownInOrder ==
    op[MainTask].steps \in {<<>>, <<"broadcast">>, <<"broadcast", "close">>}

\* C6: once a unit has finished, by success or failure, or the supervisor
\* has got an exception or an interrupt, main attempts the "bot stopped"
\* broadcast; the pool is closed only after that attempt; and main does not
\* end with an error of either step.
C6_ShutdownBroadcastsThenCloses ==
    /\ []ShutdownInOrder
    /\ [](op[MainTask].raised \in {"none", "CancelledError"})
    /\ (\E u \in Units : op[u].done) ~> (op[MainTask].steps # <<>>)
\* Task t is at the read of load(f) and returns in this step.
LoadReturns(t, f) ==
    /\ running = t
    /\ stack[t] # <<>>
    /\ Top(t).fn = "load"
    /\ Top(t).filename = f
    /\ op'[t].done

\* C11: once save(f, S) has returned True, a load(f) that follows with no
\* later successful save of f in between returns exactly S, whatever set of
\* strings (chat_ids.json) or of integers (subscribers.json) S is.
C11_LoadReturnsSavedSet ==
    [][\A t \in Tasks, f \in Files :
          (LoadReturns(t, f) /\ hist[f].any) =>
              op'[t].result = SetVal(hist[f].set)]_vars

\* The empty set was saved over a snapshot that had a member, and the load
\* after it has returned the empty set.
C11_EmptySetLoaded ==
    \E t \in Tasks :
        /\ op[t].fn = "load"
        /\ op[t].arg = SUBS_FILE
        /\ op[t].done
        /\ hist[SUBS_FILE] = Saved({})
        /\ op[t].result = SetVal({})
        /\ committed[SUBS_FILE] # {{}}
\* Task t is inside the locked section of load or save on file f: the read,
\* or the write of the temporary file and the rename.
InCritical(t, f) ==
    /\ stack[t] # <<>>
    /\ Top(t).fn \in {"load", "save"}
    /\ Top(t).filename = f
    /\ Top(t).pc \in {"read", "open", "dump", "replace"}

\* Task t is about to take the lock of file f.
AtLock(t, f) ==
    /\ stack[t] # <<>>
    /\ Top(t).fn \in {"load", "save"}
    /\ Top(t).filename = f
    /\ Top(t).pc = "lock"

\* C13: for each file at most one task is inside the locked section of load
\* or save, and it holds the file's lock; a task that comes to take a lock
\* finds it free, so no operation waits, neither for one on the other file
\* nor for one on its own.
C13_CriticalSectionsExclusive ==
    \A f \in Files :
        /\ Cardinality({t \in Tasks : InCritical(t, f)}) <= 1
        /\ \A t \in Tasks : InCritical(t, f) => locks[f] = t
        /\ \A t \in Tasks : AtLock(t, f) => locks[f] \in {"none", "free"}

\* A load reads chat_ids.json under its lock after the lock of
\* subscribers.json was used by a save and released.
C13_ReadUnderLock ==
    \E t \in Tasks :
        /\ InCritical(t, CHAT_FILE)
        /\ Top(t).fn = "load"
        /\ locks[CHAT_FILE] = t
        /\ locks[SUBS_FILE] = "free"
        /\ hist[SUBS_FILE].any
\* The step with which the store operation of task t ends.
StoreOpEnds(t) ==
    /\ op[t].fn \in {"add_chat_id", "toggle_subscription"}
    /\ ~op[t].done
    /\ op'[t].done

\* The file a store operation works on, and its set out of the two.
FileOf(fn) == IF fn = "add_chat_id" THEN CHAT_FILE ELSE SUBS_FILE
SetOf(fn, chats, subs) == IF fn = "add_chat_id" THEN chats ELSE subs

\* The set the operation of task t is to leave in memory.
ChangeOf(o) ==
    IF o.fn = "add_chat_id" THEN o.chats0 \cup {o.arg}
    ELSE Toggled(o.subs0, o.arg[1], o.arg[2])

\* C14: a registration or a toggle whose write failed ends with False and
\* without an exception, with both files as they were when it was called and
\* with its change in the in-memory set; and a save that succeeds leaves in
\* the file the whole in-memory set, so the change a failed save left behind
\* is written by the next one of that collection that succeeds.
C14_FailedSaveKeepsChange ==
    [][\A t \in Tasks :
          (StoreOpEnds(t) /\ op[t].saves = 1) =>
              LET o == op[t]
                  f == FileOf(o.fn)
                  before == SetOf(o.fn, o.chats0, o.subs0)
                  after == SetOf(o.fn, chat_ids', subscribers')
              IN /\ op'[t].raised = "none"
                 /\ exc'[t] = "none"
                 /\ after = ChangeOf(o)
                 /\ after # before
                 /\ IF op'[t].result.ok
                    THEN Load(disk'[f]) = after
                    ELSE /\ op'[t].result = Bool(FALSE)
                         /\ disk' = o.disk0]_vars

\* A registration whose write failed was followed by one whose write
\* succeeded, and the file holds both identifiers.
C14_LaterSaveWritesChange ==
    \E t, u \in Tasks :
        /\ op[t].fn = "add_chat_id" /\ op[t].done /\ op[t].saves = 1
        /\ op[t].result = Bool(FALSE)
        /\ op[u].fn = "add_chat_id" /\ op[u].done /\ op[u].saves = 1
        /\ op[u].result = Bool(TRUE)
        /\ op[t].arg \in op[u].chats0
        /\ Load(op[u].disk0[CHAT_FILE]) = op[t].chats0
        /\ Load(disk[CHAT_FILE]) = op[t].chats0 \cup {op[t].arg, op[u].arg}
        /\ op[t].arg # op[u].arg
\* The broadcast calls the claim gives a presence event: none for a member
\* that is not subscribed or a channel that did not change, otherwise one,
\* with the template of the transition and the name of the channel it
\* renders.
CastsOf(member, before, after, subs) ==
    IF member \notin subs \/ before = after THEN <<>>
    ELSE IF before = None
    THEN <<[tpl |-> "voice_events.joined", channel |-> after]>>
    ELSE IF after = None
    THEN <<[tpl |-> "voice_events.left", channel |-> before]>>
    ELSE <<[tpl |-> "voice_events.moved", channel |-> after]>>

\* C12: a presence event makes no broadcast call when the member was not
\* subscribed when it arrived or the channel is the same, and otherwise
\* exactly one, with the joined, left or moved template of the transition
\* (moved with the name of the next channel).
C12_OneBroadcastPerTransition ==
    \A t \in Tasks :
        op[t].fn = "on_voice_state_update" =>
            LET o == op[t]
                casts == CastsOf(o.arg[1], o.arg[2], o.arg[3], o.subs0)
            IN /\ op[t].done => o.casts = casts
               /\ o.casts \in {<<>>, casts}

\* Member 42, subscribed, moved from Lounge to Study and the handler has
\* ended after its broadcast reached a destination.
C12_MovedToStudy ==
    \E t \in Tasks :
        /\ op[t].fn = "on_voice_state_update"
        /\ op[t].arg = <<42, "Lounge", "Study">>
        /\ op[t].done
        /\ op[t].oks = 1
        /\ op[t].casts = <<[tpl |-> "voice_events.moved", channel |-> "Study"]>>
\* The polling frame of task t is the one at work (no callee above it) and
\* is at position pc.
LoopAt(t, pc) ==
    /\ Polling(t)
    /\ Len(stack[t]) = 1
    /\ stack[t][1].pc = pc

\* C15: an exception that reaches the loop of telegram_polling is taken by
\* its handler, the handler sleeps, and what follows the sleep is the next
\* getUpdates call (or the cancellation of the task); the loop is left only
\* by a CancelledError, caught by its handler or raised in the handler's
\* sleep.
C15_LoopSurvivesExceptions ==
    [][\A t \in Tasks :
          /\ (Polling(t) /\ Len(stack[t]) = 1 /\ running = t
                 /\ exc[t] # "none" /\ IsException(exc[t])) =>
                 /\ stack'[t] # <<>>
                 /\ exc'[t] = "none"
                 /\ stack'[t][1].pc = "except"
          /\ (LoopAt(t, "except") /\ stack'[t] # stack[t]) =>
                 /\ stack'[t] # <<>>
                 /\ stack'[t][1].pc = "backoff"
                 /\ running' = NoTask
          /\ (LoopAt(t, "backoff") /\ stack'[t] # stack[t]) =>
                 \/ stack'[t] # <<>> /\ stack'[t][1].pc = "loop"
                 \/ exc[t] = "CancelledError"
          /\ (LoopAt(t, "loop") /\ stack'[t] # stack[t]) =>
                 /\ Len(stack'[t]) = 2
                 /\ stack'[t][2].fn = "get_updates"
          /\ (Polling(t) /\ stack'[t] = <<>>) =>
                 \/ LoopAt(t, "break")
                 \/ exc[t] = "CancelledError"]_vars

\* An exception cut short the handling of a list of updates (the count of
\* those left is still in the frame), and the request of the getUpdates call
\* that followed the backoff is in flight.
C15_PollsAgainAfterException ==
    \E t \in Tasks :
        /\ Polling(t)
        /\ Len(stack[t]) = 3
        /\ stack[t][1].pc = "got"
        /\ stack[t][1].left > 0
        /\ stack[t][2].fn = "get_updates"
        /\ InFlight(t)
        /\ ~op[t].cancelled
\* The step with which the process_update frame of task t is left.
ProcessUpdateEnds(t) ==
    /\ running = t
    /\ stack[t] # <<>>
    /\ Top(t).fn = "process_update"
    /\ Len(stack'[t]) < Len(stack[t])

Commands == {"/start", "/help", "/status"}

\* C16: process_update is left by a return, never by an exception other
\* than the cancellation of the task; on return the sends recorded for the
\* update are those of the handler its stripped text names ("/start": the
\* reply of handle_start, "/help": the help text, "/status": the loading
\* text first); for any other text they are the one "invalid command" reply
\* and both sets are as they were; and a return from the exception handler
\* gives False.
C16_ProcessUpdateDispatches ==
    [][\A t \in Tasks :
          ProcessUpdateEnds(t) =>
              LET u == Top(t).update
                  text == Strip(u.text)
                  sends == op[t].sends
                  to(tpl) == [chat_id |-> u.chat_id, tpl |-> tpl]
              IN /\ exc'[t] = "none" \/ exc[t] = "CancelledError"
                 /\ exc[t] = "none" =>
                       IF Top(t).pc = "except"
                       THEN /\ ret'[t] = Bool(FALSE)
                            /\ text \in {"/status", NonString}
                       ELSE IF text = "/start"
                       THEN sends \in {<<to("start.welcome")>>,
                                       <<to("start.already_registered")>>}
                       ELSE IF text = "/help"
                       THEN sends = <<to("help.title")>>
                       ELSE IF text = "/status"
                       THEN Len(sends) = 2 /\ sends[1] = to("status.loading")
                       ELSE /\ sends = <<to("errors.invalid_command")>>
                            /\ chat_ids = op[t].chats0
                            /\ subscribers = op[t].subs0
                 /\ (text \notin Commands /\ exc[t] # "none") =>
                       /\ chat_ids = op[t].chats0
                       /\ subscribers = op[t].subs0
                       /\ Len(sends) <= 1]_vars

\* The status text could not be rendered: the exception is in the handler
\* of process_update, which is about to return False.
C16_FailedStatusReturnsFalse ==
    \E t \in Tasks :
        /\ At(t, "process_update", "except")
        /\ Top(t).update.text = "/status"
        /\ Len(op[t].sends) = 1
        /\ op[t].sends[1].tpl = "status.loading"
\* Task t is at the step of add_chat_id, called by handle_start.
InHandleStart(t) ==
    /\ running = t
    /\ Len(stack[t]) >= 2
    /\ Top(t).fn = "add_chat_id"
    /\ stack[t][Len(stack[t]) - 1].fn = "handle_start"

\* C17: no step of the relay takes a member out of Destinations, and a step
\* that adds one is the add_chat_id of a handle_start.
C17_DestinationsOnlyGrow ==
    [][/\ chat_ids \subseteq chat_ids'
       /\ chat_ids' # chat_ids => \E t \in Tasks : InHandleStart(t)]_vars

\* A "/start" has added its chat while a broadcast of another task, one send
\* made, was still in progress.
C17_AddedDuringBroadcast ==
    \E t, u \in Tasks :
        /\ op[t].fn = "process_update" /\ op[t].done
        /\ op[t].arg \notin op[t].chats0
        /\ chat_ids = op[t].chats0 \cup {op[t].arg}
        /\ op[u].fn \in {"on_voice_state_update", "_update_subscription"}
        /\ ~op[u].done
        /\ Len(op[u].sends) = 1

\* C18, as claimed: a broadcast of a text without braces that has ended has
\* returned, has called send_message once for each destination that was
\* registered when it began, and has returned the number of sends that
\* succeeded, whatever "/start" was handled while it was in progress.
C18_BroadcastCoversItsDestinations ==
    \A t \in Tasks :
        (op[t].fn = "broadcast" /\ op[t].arg = "plain" /\ op[t].done) =>
            /\ op[t].raised = "none"
            /\ EachOnce(SentTo(op[t].sends), op[t].chats0)
            /\ op[t].result = Number(op[t].oks)

\* Two requests of tasks t and u, for the same member and the same state,
\* neither of which found the member in that state when it was dispatched.
SameRequests(t, u) ==
    /\ t # u
    /\ op[t].fn = "_update_subscription"
    /\ op[u].fn = "_update_subscription"
    /\ op[t].arg = op[u].arg
    /\ (op[t].arg[1] \in op[t].subs0) # op[t].arg[2]
    /\ (op[u].arg[1] \in op[u].subs0) # op[u].arg[2]

\* C19: of two such requests at most one calls the save and the broadcast,
\* and once both have ended exactly one has: it changed Subscribers (one
\* save, one broadcast of the subscription text), the other wrote nothing
\* and made no broadcast.
C19_OneRequestTakesEffect ==
    \A t, u \in Tasks :
        SameRequests(t, u) =>
            /\ op[t].saves + op[u].saves <= 1
            /\ Len(op[t].casts) + Len(op[u].casts) <= 1
            /\ (op[t].saves = 0) => (op[t].casts = <<>>)
            /\ (op[t].done /\ op[u].done) =>
                  /\ op[t].saves + op[u].saves = 1
                  /\ Len(op[t].casts) + Len(op[u].casts) = 1
                  /\ (op[t].arg[1] \in subscribers) = op[t].arg[2]

\* Two subscribe requests for member 42, both dispatched while 42 was not
\* subscribed, have both ended.
C19_TwoSubscribesEnded ==
    \E t, u \in Tasks :
        /\ SameRequests(t, u)
        /\ op[t].arg = <<42, TRUE>>
        /\ op[t].done /\ op[u].done
        /\ op[t].saves = 1
        /\ op[u].saves = 0
\* The frames of process_update on the stack of task t.
Handling(t) ==
    {i \in 1..Len(stack[t]) : stack[t][i].fn = "process_update"}

\* C20 (in states): the polling task handles one update at a time, the one
\* taken last from the response, and the cursor is past that update while
\* process_update is at work on it.
OneUpdateAtATime ==
    \A t \in Tasks :
        Polling(t) =>
            /\ Handling(t) \subseteq {2}
            /\ Handling(t) = {2} =>
                  /\ batch.ids # <<>>
                  /\ stack[t][2].update.update_id =
                        batch.ids[Len(batch.ids)]
                  /\ Cursor(t) > stack[t][2].update.update_id

\* C20 (in steps): an update is taken from the response, and the cursor
\* moved, only when no process_update is at work; each such step takes one
\* update, the next of the list, and calls process_update for it.
UpdatesTakenInTurn ==
    \A t \in Tasks :
        (Polling(t) /\ stack'[t] # <<>>) =>
            /\ (Cursor(t)' # Cursor(t) \/ batch'.ids # batch.ids) =>
                  /\ Handling(t) = {}
                  /\ Len(stack[t]) = 1
            /\ (batch'.ids # batch.ids /\ batch'.ids # <<>>) =>
                  /\ batch'.ids = Append(batch.ids, stack'[t][2].update.update_id)
                  /\ stack'[t][1].left = stack[t][1].left - 1

\* C20: within one polling response the updates are handled in the order
\* received and one at a time: the cursor is past an update before
\* process_update is called for it, and process_update has returned before
\* the cursor is moved for the next.
C20_UpdatesHandledInOrder ==
    /\ []OneUpdateAtATime
    /\ [][UpdatesTakenInTurn]_vars

\* process_update is at work on the second update of a response, the first
\* having been handled.
C20_SecondUpdateInHand ==
    \E t \in Tasks :
        /\ Polling(t)
        /\ Handling(t) = {2}
        /\ Len(batch.ids) = 2
        /\ stack[t][1].left = 0
        /\ Len(stack[t]) > 2
\* A save of file f is in progress: some task has its frame on its stack.
SaveInProgress(f) ==
    \E t \in Tasks :
        \E i \in 1..Len(stack[t]) :
            stack[t][i].fn = "save" /\ stack[t][i].filename = f

\* The set kept in memory for file f.
MemoryOf(f) == IF f = CHAT_FILE THEN chat_ids ELSE subscribers

\* C21: for each of the two collections, whenever no save of it is in
\* progress and its most recent save returned True, the file holds the
\* snapshot of the set that is in memory.
C21_DiskEqualsMemoryAfterSave ==
    \A f \in Files :
        (~SaveInProgress(f) /\ hist[f].any /\ hist[f].ok) =>
            /\ disk[f] = Dump(MemoryOf(f))
            /\ Load(disk[f]) = MemoryOf(f)

\* Two tasks have each ended a toggle that changed Subscribers, the first
\* save failed and the second succeeded, no task is at work, and the file
\* holds the set in memory, which is not the one it held at first.
C21_SavedAfterFailedSave ==
    \E t, u \in Tasks :
        /\ t # u
        /\ running = NoTask
        /\ op[t].fn = "toggle_subscription" /\ op[t].done
        /\ op[t].saves = 1 /\ op[t].result = Bool(FALSE)
        /\ op[u].fn = "toggle_subscription" /\ op[u].done
        /\ op[u].saves = 1 /\ op[u].result = Bool(TRUE)
        /\ op[u].disk0 = op[t].disk0
        /\ hist[SUBS_FILE].ok
        /\ Load(disk[SUBS_FILE]) = subscribers
        /\ Load(op[t].disk0[SUBS_FILE]) # subscribers
====
